---- MODULE Spec2Model ----
(***************************************************************************)
(* Job execution lifecycle (JobManager, RetryHandler, the jobs API) and    *)
(* the connector cache (ConnectionManager) of AI_Data_Automation.          *)
(*                                                                         *)
(* Persistence is the SQLAlchemy session of backend/app/database.py        *)
(* (sessionmaker defaults: expire_on_commit = True).  Every request works  *)
(* on its own session, so a handler sees the rows it loaded, and a commit  *)
(* writes, by primary key, the attributes whose value differs from the     *)
(* loaded one.  A handler that makes no blocking call between its read and *)
(* its commit is one step; execute_job is cut at its commits and at the    *)
(* blocking executor call.                                                 *)
(***************************************************************************)
EXTENDS Integers, Sequences, FiniteSets, TLC

\* ------------------------------------------------------------ bounds
MaxCalls == 3        \* execute_job calls made one after another (SerialSpec)
MaxRaceCalls == 2    \* execute_job calls made side by side (Spec)
MaxThreshold == 3    \* largest failure_threshold a request carries
MaxTime == 1         \* last instant of the clock
MaxGets == 3         \* get_connector calls made in one behaviour
MaxConns == 2        \* connection profiles
MaxRetryCount == 4   \* largest retry_count and max_retries
MaxNumber == 3       \* largest numerator of a number in a retry policy
MaxMinute == 6       \* latest minute a next-run computation starts from
MaxChecks == 4       \* check_connection calls made in one behaviour
MaxSecretLen == 2    \* longest secret that is encrypted
MaxPieces == 2       \* pieces a SQL script is put together from

\* A NULL column (no timestamp, no duration).
NULL == 0 - 1

\* JobStatus values (models/job.py)
PENDING == "pending"
RUNNING == "running"
COMPLETED == "completed"
FAILED == "failed"
CANCELLED == "cancelled"
Terminal == {COMPLETED, FAILED, CANCELLED}

Triggers == {"manual", "schedule"}
\* The request contexts that run execute_job side by side, each with its own
\* session (a schedule tick and a manual trigger, say).
Workers == {1, 2}
ConnIds == 1..MaxConns
Thresholds == 0..MaxThreshold
\* An optional request field: <<>> is "unset", <<v>> carries v.
Optional(S) == {<<>>} \cup {<<v>> : v \in S}

Returns(v) == [raises |-> FALSE, value |-> v]
Raises == [raises |-> TRUE, value |-> FALSE]

VARIABLES
    now,         \* the clock, datetime.now(timezone.utc)
    job,         \* the scheduled_jobs row
    executions,  \* the job_executions rows, by id
    calls,       \* per request context: its execute_job call and the session's objects
    ncalls,      \* execute_job calls made so far
    scen,        \* history of the job since it last was active with no failures
    raised,      \* the ValueError of the latest create_job or execute_job call
    connectors,  \* ConnectionManager._connectors
    profiles,    \* ConnectionManager._connection_profiles (its keys)
    objs,        \* the connector objects ever instantiated
    gets,        \* per thread: its get_connector call and the connector in hand
    ngets,       \* get_connector and create_temp_connector calls made so far
    last,        \* the latest connection call to finish and what it gave
    health,      \* per connection profile: health_status and failed_attempts
    logs,        \* the connection_health_logs rows, in insertion order
    args,        \* the arguments of a function under study (<<>>: none)
    result       \* what it returned (<<>>: not called yet)

vars == <<now, job, executions, calls, ncalls, scen, raised, connectors, profiles, objs,
         gets, ngets, last, health, logs, args, result>>
jobVars == <<now, job, executions, calls, ncalls, scen, raised>>
healthVars == <<health, logs>>
connVars == <<connectors, profiles, objs, gets, ngets, last, healthVars>>
fnVars == <<args, result>>

\* ------------------------------------------------------------ rows
\* ScheduledJob before create_job has inserted it.
NoJob ==
    [exists |-> FALSE, is_active |-> FALSE, failure_threshold |-> 0,
     run_count |-> 0, success_count |-> 0, failure_count |-> 0,
     consecutive_failures |-> 0, last_run_at |-> NULL,
     cron_expression |-> <<>>, timezone |-> "UTC", next_run_at |-> NULL]

\* ScheduledJob as create_job inserts it: the counters take their column defaults.
NewJob(is_active, failure_threshold, cron_expression, timezone) ==
    [exists |-> TRUE, is_active |-> is_active,
     failure_threshold |-> failure_threshold,
     run_count |-> 0, success_count |-> 0, failure_count |-> 0,
     consecutive_failures |-> 0, last_run_at |-> NULL,
     cron_expression |-> cron_expression, timezone |-> timezone,
     next_run_at |-> NULL]

\* JobExecution as execute_job inserts it.
NewExecution ==
    [status |-> PENDING, started_at |-> NULL,
     completed_at |-> NULL, duration_ms |-> NULL,
     error_message |-> FALSE, error_stack_trace |-> FALSE]

\* What a commit writes: the attributes of the session's object that differ
\* from the values it loaded; the other columns keep what the database holds.
Flush(db, loaded, local) ==
    [f \in DOMAIN db |-> IF local[f] # loaded[f] THEN local[f] ELSE db[f]]

\* ------------------------------------------------------------ RetryHandler
\* RetryHandler.increment_failure_count, on the session's job object
IncrementFailureCount(j) ==
    LET j1 == [j EXCEPT !.failure_count = @ + 1,
                        !.consecutive_failures = @ + 1]
    IN  IF j1.consecutive_failures >= j1.failure_threshold
        THEN [j1 EXCEPT !.is_active = FALSE]
        ELSE j1

\* RetryHandler.reset_retry_state
ResetRetryState(j) == [j EXCEPT !.consecutive_failures = 0]

\* ------------------------------------------------------------ calls
Live == {"pending", "running", "executing"}
InFlight(cs) == {w \in Workers : cs[w].pc \in Live}

\* The history the consecutive-failure scenario is read from: since the job
\* last was active with consecutive_failures = 0 and nothing in flight, k
\* manual execute_job calls ran one after another and failed, and nothing
\* else touched the job.
ScenBroken == [ok |-> FALSE, k |-> 0, run0 |-> 0, fail0 |-> 0]
ScenStart(j) ==
    [ok |-> TRUE, k |-> 0, run0 |-> j.run_count, fail0 |-> j.failure_count]
Quiet(j, cs) ==
    /\ j.exists /\ j.is_active /\ j.consecutive_failures = 0
    /\ j.failure_threshold >= 1
    /\ InFlight(cs) = {}
ScenNext(j, cs, counted) ==
    IF counted /\ scen.ok THEN [scen EXCEPT !.k = @ + 1]
    ELSE IF Quiet(j, cs) THEN ScenStart(j)
    ELSE ScenBroken

\* The ValueError execute_job raises at lines 100-106, if any.
NoError == "none"
ExecuteJobError(j, triggered_by) ==
    IF ~j.exists THEN "Job not found"
    ELSE IF ~j.is_active /\ triggered_by = "schedule" THEN "Job is not active"
    ELSE NoError

\* A request context with no execute_job call in progress.
NoCall ==
    [pc |-> "idle", triggered_by |-> "manual", exec |-> 0,
     job |-> NoJob, row |-> NewExecution]

\* No connection profile.
NoProfile ==
    [id |-> 0, db_type |-> "", username |-> <<>>, encrypted_password |-> <<>>,
     encrypted_connection_string |-> <<>>]

\* A thread with no get_connector call in progress.
NoGet == [pc |-> "idle", call |-> 0, conn |-> 0, obj |-> 0, profile |-> NoProfile]

\* What a finished connection call gave: the connector it returned (0: none),
\* the exception it raised, the number it returned.  call numbers the
\* get_connector and create_temp_connector calls in the order they began.
NoException == "none"
ValueError == "ValueError"
ConnectionError == "ConnectionError"
Gave(op, call, profile, conn, obj, error, value) ==
    [op |-> op, call |-> call, profile |-> profile, conn |-> conn, obj |-> obj,
     error |-> error, value |-> value]
\* The health columns of a new connection profile: their defaults.
ONLINE == "online"
OFFLINE == "offline"
DEGRADED == "degraded"
UNKNOWN == "unknown"
NewHealth == [health_status |-> UNKNOWN, failed_attempts |-> 0]

NoLast == Gave("none", 0, NoProfile, 0, 0, NoException, 0)

\* connection_id in self._connectors (0: no entry)
Cached(c) == connectors[c] # 0

\* ------------------------------------------------------------ Init
\* No job, no execution, no call in progress, an empty connector cache.
InitStore ==
    /\ job = NoJob
    /\ executions = <<>>
    /\ calls = [w \in Workers |-> NoCall]
    /\ ncalls = 0
    /\ scen = ScenBroken
    /\ raised = NoError
    /\ connectors = [c \in ConnIds |-> 0]
    /\ profiles = {}
    /\ objs = <<>>
    /\ gets = [t \in Workers |-> NoGet]
    /\ ngets = 0
    /\ last = NoLast
    /\ health = [c \in ConnIds |-> NewHealth]
    /\ logs = <<>>

InitProgram ==
    /\ now = 0
    /\ InitStore

Init ==
    /\ InitProgram
    /\ args = <<>>
    /\ result = <<>>

\* ------------------------------------------------------------ cron
\* cron_expression: <<>> is None, <<"">> the empty string, both falsy.
CronExpressions == Optional({"", "*/5 * * * *"})
HasCron(cron_expression) == cron_expression # <<>> /\ cron_expression[1] # ""

\* Instants are minutes counted from 2026-01-01T00:00Z.
Minutes == 0..MaxMinute

\* croniter(cron_expression): the minutes of local time the expression
\* matches, minute t matching iff t % period is one of the phases; <<>> when
\* croniter raises.
Croniter(cron_expression) ==
    CASE cron_expression = "* * * * *" ->
             <<[period |-> 1, phases |-> {0}]>>
      [] cron_expression = "*/5 * * * *" ->
             <<[period |-> 5, phases |-> {0}]>>
      [] cron_expression = "*/7 * * * *" ->
             <<[period |-> 60, phases |-> {7 * k : k \in 0..8}]>>
      [] cron_expression = "3 * * * *" ->
             <<[period |-> 60, phases |-> {3}]>>
      [] cron_expression = "0 2 * * *" ->
             <<[period |-> 1440, phases |-> {120}]>>
      [] OTHER -> <<>>

CronStrings == {"* * * * *", "*/5 * * * *", "*/7 * * * *", "3 * * * *",
                "0 2 * * *", "every day"}

\* JobScheduler.validate_cron_expression: is_valid
ValidateCronExpression(cron_expression) == Croniter(cron_expression) # <<>>

\* pytz.timezone(timezone): the zone's offset from UTC in minutes during
\* January 2026; <<>> when the name is unknown and pytz raises.
Timezone(timezone) ==
    CASE timezone = "UTC" -> <<0>>
      [] timezone = "Asia/Kolkata" -> <<330>>
      [] timezone = "Asia/Kathmandu" -> <<345>>
      [] timezone = "America/New_York" -> <<0 - 300>>
      [] OTHER -> <<>>

TimezoneStrings == {"UTC", "Asia/Kolkata", "Asia/Kathmandu",
                    "America/New_York", "Mars/Phobos"}

\* Variant of get_next that returns the base minute itself when it matches.
GetNext_FromBase(c, t) ==
    LET start == t - (t % c.period)
        later == {u \in {start + p + k * c.period :
                             p \in c.phases, k \in {0, 1}} : u >= t}
    IN  CHOOSE u \in later : \A v \in later : u <= v

\* croniter(cron_expression, base_time).get_next(datetime), on local minutes:
\* the first matching minute after t.
GetNext(c, t) ==
    LET start == t - (t % c.period)
        later == {u \in {start + p + k * c.period :
                             p \in c.phases, k \in {0, 1}} : u > t}
    IN  CHOOSE u \in later : \A v \in later : u <= v

\* A datetime: aware ones carry the UTC minute, naive ones a wall-clock
\* minute with no zone.
Datetimes == [t : Minutes, aware : BOOLEAN]

\* JobScheduler.calculate_next_run; base_time <<>> is None.
CalculateNextRun(cron_expression, timezone, base_time) ==
    LET tz == Timezone(timezone)
        cron == Croniter(cron_expression)
    IN  IF tz = <<>> \/ cron = <<>> THEN Raises
        ELSE LET local == IF base_time = <<>> THEN now + tz[1]
                          ELSE IF base_time[1].aware
                               THEN base_time[1].t + tz[1]
                               ELSE base_time[1].t
                 next_run == GetNext(cron[1], local)
             IN  Returns(next_run - tz[1])

\* calculate_next_run, twice over, on every expression, zone and base time
\* within the bounds.
NextRunInit ==
    /\ InitProgram
    /\ result = <<>>
    /\ args \in [cron_expression : CronStrings,
                 timezone : TimezoneStrings,
                 base_time : Optional(Datetimes)]

NextRunCall ==
    /\ Len(result) < 2
    /\ result' = Append(result, CalculateNextRun(args.cron_expression,
                                                 args.timezone, args.base_time))
    /\ UNCHANGED <<args, jobVars, connVars>>

NextRunSpec == NextRunInit /\ [][NextRunCall]_vars

\* JobScheduler.update_next_run, on the session's job object
UpdateNextRun(j) ==
    IF ~HasCron(j.cron_expression) THEN [j EXCEPT !.next_run_at = NULL]
    ELSE LET next_run == CalculateNextRun(j.cron_expression[1],
                             IF j.timezone = "" THEN "UTC" ELSE j.timezone,
                             <<>>)
         IN  IF next_run.raises THEN j
             ELSE [j EXCEPT !.next_run_at = next_run.value]

\* ------------------------------------------------------------ jobs
Tick ==
    /\ now < MaxTime
    /\ now' = now + 1
    /\ UNCHANGED <<job, executions, calls, ncalls, scen, raised, connVars, fnVars>>

\* What create_job raises for a cron expression that fails validation.
InvalidCron == "Invalid cron expression"

\* Variant of create_job that inserts the job without validating its cron
\* expression.
CreateJob_NoValidation(is_active, failure_threshold, cron_expression, timezone) ==
    /\ ~job.exists
    /\ LET j == NewJob(is_active, failure_threshold, cron_expression, timezone)
       IN  job' = IF HasCron(j.cron_expression) THEN UpdateNextRun(j) ELSE j
    /\ raised' = NoError
    /\ scen' = ScenNext(job', calls, FALSE)
    /\ UNCHANGED <<now, executions, calls, ncalls, connVars, fnVars>>

\* JobManager.create_job
CreateJob(is_active, failure_threshold, cron_expression, timezone) ==
    /\ ~job.exists
    /\ IF HasCron(cron_expression)
          /\ ~ValidateCronExpression(cron_expression[1])
       THEN /\ raised' = InvalidCron
            /\ UNCHANGED <<job, scen>>
       ELSE /\ LET j == NewJob(is_active, failure_threshold,
                               cron_expression, timezone)
               IN  job' = IF HasCron(j.cron_expression)
                          THEN UpdateNextRun(j) ELSE j
            /\ raised' = NoError
            /\ scen' = ScenNext(job', calls, FALSE)
    /\ UNCHANGED <<now, executions, calls, ncalls, connVars, fnVars>>

\* api/jobs.py toggle_job
ToggleJob ==
    /\ job.exists
    /\ job' = [job EXCEPT !.is_active = ~job.is_active]
    /\ scen' = ScenNext(job', calls, FALSE)
    /\ UNCHANGED <<now, executions, calls, ncalls, raised, connVars, fnVars>>

\* api/jobs.py update_job: setattr for every field the request sets
UpdateJob(is_active, failure_threshold) ==
    /\ job.exists
    /\ <<is_active, failure_threshold>> # <<<<>>, <<>>>>
    /\ job' = [job EXCEPT
                 !.is_active = IF is_active = <<>> THEN @ ELSE is_active[1],
                 !.failure_threshold =
                     IF failure_threshold = <<>> THEN @ ELSE failure_threshold[1]]
    /\ scen' = ScenNext(job', calls, FALSE)
    /\ UNCHANGED <<now, executions, calls, ncalls, raised, connVars, fnVars>>

\* Variant of the two checks that lets the schedule run an inactive job.
ExecuteJobRejects_OnlyMissing(j, triggered_by) ==
    ~j.exists

\* Variant of the two checks that turns away every call on an inactive job.
ExecuteJobRejects_AnyInactive(j, triggered_by) ==
    \/ ~j.exists
    \/ ~j.is_active

\* execute_job's two early raises: "Job not found", "Job is not active"
ExecuteJobRejects(j, triggered_by) ==
    \/ ~j.exists
    \/ (~j.is_active /\ triggered_by = "schedule")

\* execute_job up to its first commit: load the job, raise or insert the
\* PENDING row.
ExecuteJobBegin(w, triggered_by) ==
    /\ calls[w].pc = "idle"
    /\ \A v \in Workers : v < w => calls[v].pc # "idle"
    /\ ncalls' = ncalls + 1
    /\ IF ExecuteJobRejects(job, triggered_by)
       THEN UNCHANGED <<executions, calls>>
       ELSE /\ executions' = Append(executions, NewExecution)
            /\ calls' = [calls EXCEPT ![w] =
                   [NoCall EXCEPT !.pc = "pending",
                                  !.triggered_by = triggered_by,
                                  !.exec = Len(executions) + 1]]
    /\ scen' = IF triggered_by = "manual" /\ InFlight(calls) = {}
                  /\ ~ExecuteJobRejects(job, triggered_by)
               THEN scen
               ELSE ScenNext(job, calls', FALSE)
    /\ raised' = ExecuteJobError(job, triggered_by)
    /\ UNCHANGED <<now, job, connVars, fnVars>>

\* execute_job lines 120-123: status RUNNING, started_at, commit
ExecuteJobMarkRunning(c) ==
    /\ calls[c].pc = "pending"
    /\ executions' = [executions EXCEPT
                        ![calls[c].exec].status = RUNNING,
                        ![calls[c].exec].started_at = now]
    /\ calls' = [calls EXCEPT ![c].pc = "running"]
    /\ UNCHANGED <<now, job, ncalls, scen, raised, connVars, fnVars>>

\* The execution object after lines 144-146 (the executor returned a result)
\* or 190-193 (something raised).
FinishedExecution(row, status) ==
    [row EXCEPT
       !.status = status,
       !.completed_at = now,
       !.duration_ms = IF row.started_at # NULL THEN now - row.started_at ELSE @]

\* error_message and error_stack_trace (TRUE: a text is stored, FALSE: NULL).
\* Lines 150-151 copy both from the executor's result: a failed run carries a
\* message and a trace, a failed validation a message only, a success
\* neither.  The except block (line 194) stores str(e) as the message.
ErrorRecorded(row, outcome) ==
    CASE outcome = "success" ->
           [row EXCEPT !.error_message = FALSE, !.error_stack_trace = FALSE]
      [] outcome \in {"failure", "retry_raise"} ->
           [row EXCEPT !.error_message = TRUE, !.error_stack_trace = TRUE]
      [] outcome = "invalid" ->
           [row EXCEPT !.error_message = TRUE, !.error_stack_trace = FALSE]
      [] OTHER -> [row EXCEPT !.error_message = TRUE]

\* The job object after lines 156-163 or 197-199.
FinishedJob(j, success) ==
    LET j1 == [j EXCEPT !.last_run_at = now, !.run_count = @ + 1]
    IN  IF success
        THEN ResetRetryState([j1 EXCEPT !.success_count = @ + 1])
        ELSE IncrementFailureCount(j1)

\* execute_job lines 170-172, reached when the executor returned a result
\* and the retry check did not raise: a job with a cron expression gets its
\* next run recomputed.  The except block has no such step.
Rescheduled(j, outcome) ==
    IF outcome \in {"success", "failure", "invalid"} /\ HasCron(j.cron_expression)
    THEN UpdateNextRun(j)
    ELSE j

\* Variant of the end of execute_job whose exception path records nothing.
Finish_KeepRunningOnRaise(c, loadedJob, loadedRow, outcome) ==
    LET e == calls[c].exec
        status == IF outcome = "success" THEN COMPLETED ELSE FAILED
        row1 == Flush(executions[e], loadedRow,
                      ErrorRecorded(FinishedExecution(loadedRow, status), outcome))
        job1 == Flush(job, loadedJob,
                      Rescheduled(FinishedJob(loadedJob, outcome = "success"),
                                  outcome))
    IN  /\ executions' = [executions EXCEPT ![e] =
               IF outcome = "raise" THEN @ ELSE row1]
        /\ job' = job1
        /\ calls' = [calls EXCEPT ![c] = NoCall]
        /\ scen' = ScenNext(job', calls',
                            outcome # "success" /\ calls[c].triggered_by = "manual")
        /\ UNCHANGED <<now, ncalls, raised, connVars, fnVars>>

\* The end of execute_job, from the objects the session loaded: finalize the
\* execution, update the job's statistics, commit; return or re-raise.
\* Outcomes: the executor returned a successful result ("success"), a failed
\* one ("failure"), or something raised before a result was recorded
\* ("raise").  "retry_raise" is a failed result whose should_retry check
\* raises (retry_policy.max_retries is stored as given, and a value that does
\* not compare with retry_count raises TypeError): increment_failure_count
\* has committed by then, and the except block, on the reloaded rows,
\* finalizes the execution and counts the failure again.
Finish(c, loadedJob, loadedRow, outcome) ==
    LET e == calls[c].exec
        status == IF outcome = "success" THEN COMPLETED ELSE FAILED
        row1 == Flush(executions[e], loadedRow,
                      ErrorRecorded(FinishedExecution(loadedRow, status), outcome))
        job1 == Flush(job, loadedJob,
                      Rescheduled(FinishedJob(loadedJob, outcome = "success"),
                                  outcome))
    IN  /\ executions' = [executions EXCEPT ![e] =
               IF outcome = "retry_raise"
               THEN ErrorRecorded(FinishedExecution(row1, FAILED), "raise")
               ELSE row1]
        /\ job' = IF outcome = "retry_raise" THEN FinishedJob(job1, FALSE) ELSE job1
        /\ calls' = [calls EXCEPT ![c] = NoCall]
        /\ scen' = ScenNext(job', calls',
                            outcome # "success" /\ calls[c].triggered_by = "manual")
        /\ UNCHANGED <<now, ncalls, raised, connVars, fnVars>>

\* execute_job lines 127-135: the session reloads the job (expired by the
\* commit) to resolve the connection string and select the executor.  Either
\* of them raising goes to the except block at once; otherwise the executor
\* starts with the job and the execution as loaded here.
ExecuteJobResolve(c, ok) ==
    /\ calls[c].pc = "running"
    /\ IF ok
       THEN /\ calls' = [calls EXCEPT ![c].pc = "executing", ![c].job = job,
                                      ![c].row = executions[calls[c].exec]]
            /\ UNCHANGED <<now, job, executions, ncalls, scen, raised, connVars, fnVars>>
       ELSE Finish(c, job, executions[calls[c].exec], "raise")

\* execute_job lines 136-203: executor.execute returns a successful result,
\* returns a failed result, or raises.
\* "invalid" is the failed result an executor returns when its
\* validate_config finds errors; execute_job handles it as any failed result.
Outcomes == {"success", "failure", "invalid", "retry_raise", "raise"}

ExecuteJobFinish(c, outcome) ==
    /\ calls[c].pc = "executing"
    /\ Finish(c, calls[c].job, calls[c].row, outcome)

\* Variant of the cancellation that leaves completed_at and duration_ms alone.
CancelledExecution_NoTimestamp(row) ==
    [row EXCEPT !.status = CANCELLED]

\* cancel_execution lines 222-226
CancelledExecution(row) ==
    [row EXCEPT
       !.status = CANCELLED,
       !.completed_at = now,
       !.duration_ms = IF row.started_at # NULL THEN now - row.started_at ELSE @]

\* Variant of cancel_execution that also cancels a PENDING execution.
CancelExecution_AlsoPending(e) ==
    /\ IF e \in DOMAIN executions /\ executions[e].status \in {PENDING, RUNNING}
       THEN executions' = [executions EXCEPT ![e] = CancelledExecution(@)]
       ELSE UNCHANGED executions
    /\ UNCHANGED <<now, job, calls, ncalls, scen, raised, connVars, fnVars>>

\* JobManager.cancel_execution: raises (and changes nothing) unless the
\* execution exists and is RUNNING.
CancelExecution(e) ==
    /\ IF e \in DOMAIN executions /\ executions[e].status = RUNNING
       THEN executions' = [executions EXCEPT ![e] = CancelledExecution(@)]
       ELSE UNCHANGED executions
    /\ UNCHANGED <<now, job, calls, ncalls, scen, raised, connVars, fnVars>>

\* ------------------------------------------------------------ connection strings
\* None or an empty string
Falsy(v) == v = <<>> \/ v[1] = ""

\* Stored ciphertexts, by what they hold.
EncryptedPassword == "gAAAAA-password"
EncryptedUri == "gAAAAA-uri"
Tampered == "tampered"

\* A connection string, by its parts: scheme, user, password, host.
StoredUri == <<"postgresql", "app", "s3cret", "replica">>

\* crypto.decrypt_value: None for nothing to decrypt and for a ciphertext
\* that does not decrypt.
DecryptValue(encrypted_value) ==
    IF Falsy(encrypted_value) THEN <<>>
    ELSE CASE encrypted_value[1] = EncryptedPassword -> <<"s3cret">>
           [] encrypted_value[1] = EncryptedUri -> <<StoredUri>>
           [] OTHER -> <<>>

\* crypto.decrypt_password
DecryptPassword(encrypted_password) == DecryptValue(encrypted_password)

POSTGRESQL == "postgresql"
MONGODB == "mongodb"
MYSQL == "mysql"
SQLITE == "sqlite"
MARIADB == "mariadb"
\* db_type is a free string column: a family with no connector
ORACLE == "oracle"
DbTypes == {POSTGRESQL, MONGODB, MYSQL, SQLITE, MARIADB, ORACLE}

\* ConnectionProfile.get_connection_string
GetConnectionString(self, decrypted_password, decrypted_connection_string) ==
    IF ~Falsy(decrypted_connection_string)
    THEN Returns(decrypted_connection_string[1])
    ELSE LET password == IF Falsy(decrypted_password) THEN ""
                         ELSE decrypted_password[1]
         IN  IF self.db_type = POSTGRESQL
             THEN Returns(<<"postgresql",
                            IF self.username = <<>> THEN "None"
                            ELSE self.username[1],
                            password, "host">>)
             ELSE IF self.db_type = MONGODB
             THEN IF ~Falsy(self.username) /\ password # ""
                  THEN Returns(<<"mongodb", self.username[1], password, "host">>)
                  ELSE Returns(<<"mongodb", "", "", "host">>)
             ELSE Raises

\* get_connector lines 59-68: the connection string of a new connector
ManagerConnectionString(connection_profile, decrypted_password) ==
    GetConnectionString(
        connection_profile,
        IF Falsy(decrypted_password)
        THEN DecryptPassword(connection_profile.encrypted_password)
        ELSE decrypted_password,
        IF ~Falsy(connection_profile.encrypted_connection_string)
        THEN DecryptValue(connection_profile.encrypted_connection_string)
        ELSE <<>>)

\* create_temp_connector lines 95-101
TempConnectionString(connection_profile, decrypted_password, decrypted_connection_string) ==
    GetConnectionString(
        connection_profile,
        IF Falsy(decrypted_password)
           /\ ~Falsy(connection_profile.encrypted_password)
        THEN DecryptPassword(connection_profile.encrypted_password)
        ELSE decrypted_password,
        IF Falsy(decrypted_connection_string)
           /\ ~Falsy(connection_profile.encrypted_connection_string)
        THEN DecryptValue(connection_profile.encrypted_connection_string)
        ELSE decrypted_connection_string)

\* JobManager._get_connection_string, for a connection that exists
JobConnectionString(connection) ==
    GetConnectionString(
        connection,
        IF ~Falsy(connection.encrypted_password)
        THEN DecryptValue(connection.encrypted_password)
        ELSE <<"">>,
        <<>>)

PostgreSQLConnector == "PostgreSQLConnector"
MySQLConnector == "MySQLConnector"
SQLiteConnector == "SQLiteConnector"
MongoDBConnector == "MongoDBConnector"

\* Variant of _get_connector_class that falls back to the PostgreSQL
\* connector for a family it does not know.
GetConnectorClass_Fallback(db_type) ==
    CASE db_type = POSTGRESQL -> Returns(PostgreSQLConnector)
      [] db_type = MYSQL -> Returns(MySQLConnector)
      [] db_type = MARIADB -> Returns(MySQLConnector)
      [] db_type = SQLITE -> Returns(SQLiteConnector)
      [] db_type = MONGODB -> Returns(MongoDBConnector)
      [] OTHER -> Returns(PostgreSQLConnector)

\* ConnectionManager._get_connector_class
GetConnectorClass(db_type) ==
    CASE db_type = POSTGRESQL -> Returns(PostgreSQLConnector)
      [] db_type = MYSQL -> Returns(MySQLConnector)
      [] db_type = MARIADB -> Returns(MySQLConnector)
      [] db_type = SQLITE -> Returns(SQLiteConnector)
      [] db_type = MONGODB -> Returns(MongoDBConnector)
      [] OTHER -> Raises

\* The connection profiles a call may be handed.
Profiles ==
    [id : ConnIds,
     db_type : DbTypes,
     username : Optional({"app"}),
     encrypted_password : Optional({EncryptedPassword, Tampered}),
     encrypted_connection_string : Optional({EncryptedUri, Tampered})]

\* The three derivations of a profile's connection string, on every profile
\* and supplied secret within the bounds.
ConnStringInit ==
    /\ InitProgram
    /\ result = <<>>
    /\ args \in [connection_profile : Profiles,
                 decrypted_password : Optional({"s3cret"})]

ConnStringCall ==
    /\ result = <<>>
    /\ result' = <<[manager |-> ManagerConnectionString(
                                    args.connection_profile,
                                    args.decrypted_password),
                    temp |-> TempConnectionString(
                                 args.connection_profile,
                                 args.decrypted_password, <<>>),
                    job |-> JobConnectionString(args.connection_profile)]>>
    /\ UNCHANGED <<args, jobVars, connVars>>

ConnStringSpec == ConnStringInit /\ [][ConnStringCall]_vars

\* ------------------------------------------------------------ connections
\* The profiles handed to the connection manager: a family whose string is
\* assembled from the parts, one with a connector but no assembled string,
\* the document store and a family with no connector, each with and without
\* a stored connection URI.
CacheProfiles ==
    {p \in Profiles : /\ p.db_type \in {POSTGRESQL, MYSQL, MONGODB, ORACLE}
                      /\ p.username = <<"app">>
                      /\ p.encrypted_password = <<EncryptedPassword>>
                      /\ p.encrypted_connection_string # <<Tampered>>}

\* A connector as its class's constructor leaves it: not connected.  conn is
\* the connection id get_connector made it for (0: a temp connector).
NewConnector(conn, class) == [conn |-> conn, connected |-> FALSE, class |-> class]

\* get_connector lines 47-77: a cached connector that reports itself
\* connected is returned at once; a cached, disconnected one is reconnected;
\* with no entry the connection string is derived, the connector class
\* selected and a connector instantiated.  connect() blocks.
GetConnectorBegin(t, connection_profile) ==
    LET c == connection_profile.id
        connection_string == ManagerConnectionString(connection_profile, <<>>)
        connector_class == GetConnectorClass(connection_profile.db_type)
    IN
    /\ gets[t].pc = "idle"
    /\ \A u \in Workers : u < t => gets[u].pc # "idle"
    /\ ngets' = ngets + 1
    /\ IF Cached(c)
       THEN /\ IF objs[connectors[c]].connected
               THEN /\ last' = Gave("get_connector", ngets + 1, connection_profile, c,
                                    connectors[c], NoException, 0)
                    /\ UNCHANGED gets
               ELSE /\ gets' = [gets EXCEPT ![t] =
                               [pc |-> "reconnecting", call |-> ngets + 1, conn |-> c,
                                obj |-> connectors[c],
                                profile |-> connection_profile]]
                    /\ UNCHANGED last
            /\ UNCHANGED objs
       ELSE IF connection_string.raises \/ connector_class.raises
       THEN /\ last' = Gave("get_connector", ngets + 1, connection_profile, c, 0,
                            ValueError, 0)
            /\ UNCHANGED <<objs, gets>>
       ELSE /\ objs' = Append(objs, NewConnector(c, connector_class.value))
            /\ gets' = [gets EXCEPT ![t] =
                   [pc |-> "connecting", call |-> ngets + 1, conn |-> c,
                    obj |-> Len(objs) + 1,
                    profile |-> connection_profile]]
            /\ UNCHANGED last
    /\ UNCHANGED <<connectors, profiles, healthVars, jobVars, fnVars>>

\* Variant of get_connector that stores the new connector before it knows
\* whether connect() succeeded.
GetConnectorConnect_StoresFirst(t, ok) ==
    /\ gets[t].pc \in {"connecting", "reconnecting"}
    /\ objs' = IF ok THEN [objs EXCEPT ![gets[t].obj].connected = TRUE] ELSE objs
    /\ IF gets[t].pc = "connecting"
       THEN /\ connectors' = [connectors EXCEPT ![gets[t].conn] = gets[t].obj]
            /\ profiles' = profiles \cup {gets[t].conn}
       ELSE UNCHANGED <<connectors, profiles>>
    /\ last' = IF ok
               THEN Gave("get_connector", gets[t].call, gets[t].profile, gets[t].conn,
                         gets[t].obj, NoException, 0)
               ELSE Gave("get_connector", gets[t].call, gets[t].profile, gets[t].conn, 0,
                         ConnectionError, 0)
    /\ gets' = [gets EXCEPT ![t] = NoGet]
    /\ UNCHANGED <<ngets, healthVars, jobVars, fnVars>>

\* get_connector lines 56-57 and 80-88: connect() returns or raises; a new
\* connector that connected is stored under the connection id.
GetConnectorConnect(t, ok) ==
    /\ gets[t].pc \in {"connecting", "reconnecting"}
    /\ objs' = IF ok THEN [objs EXCEPT ![gets[t].obj].connected = TRUE] ELSE objs
    /\ IF ok /\ gets[t].pc = "connecting"
       THEN /\ connectors' = [connectors EXCEPT ![gets[t].conn] = gets[t].obj]
            /\ profiles' = profiles \cup {gets[t].conn}
       ELSE UNCHANGED <<connectors, profiles>>
    /\ last' = IF ok
               THEN Gave("get_connector", gets[t].call, gets[t].profile, gets[t].conn,
                         gets[t].obj, NoException, 0)
               ELSE Gave("get_connector", gets[t].call, gets[t].profile, gets[t].conn, 0,
                         ConnectionError, 0)
    /\ gets' = [gets EXCEPT ![t] = NoGet]
    /\ UNCHANGED <<ngets, healthVars, jobVars, fnVars>>

\* Variant of create_temp_connector that stores the connected connector under
\* the profile's id.
CreateTempConnector_Caches(connection_profile, decrypted_connection_string, ok) ==
    LET connection_string ==
            TempConnectionString(connection_profile, <<>>,
                                 decrypted_connection_string)
        connector_class == GetConnectorClass(connection_profile.db_type)
        made == Gave("create_temp_connector", ngets + 1, connection_profile,
                     connection_profile.id, 0, NoException, 0)
    IN
    /\ ngets' = ngets + 1
    /\ IF connection_string.raises \/ connector_class.raises
       THEN /\ last' = [made EXCEPT !.error = ValueError]
            /\ UNCHANGED <<objs, connectors, profiles>>
       ELSE /\ objs' = Append(objs, [NewConnector(0, connector_class.value)
                                        EXCEPT !.connected = ok])
            /\ last' = IF ok THEN [made EXCEPT !.obj = Len(objs) + 1]
                       ELSE [made EXCEPT !.error = ConnectionError]
            /\ IF ok
               THEN /\ connectors' = [connectors EXCEPT
                                        ![connection_profile.id] = Len(objs) + 1]
                    /\ profiles' = profiles \cup {connection_profile.id}
               ELSE UNCHANGED <<connectors, profiles>>
    /\ UNCHANGED <<gets, healthVars, jobVars, fnVars>>

\* ConnectionManager.create_temp_connector; connect() returns or raises.
CreateTempConnector(connection_profile, decrypted_connection_string, ok) ==
    LET connection_string ==
            TempConnectionString(connection_profile, <<>>,
                                 decrypted_connection_string)
        connector_class == GetConnectorClass(connection_profile.db_type)
        made == Gave("create_temp_connector", ngets + 1, connection_profile,
                     connection_profile.id, 0, NoException, 0)
    IN
    /\ ngets' = ngets + 1
    /\ IF connection_string.raises \/ connector_class.raises
       THEN /\ last' = [made EXCEPT !.error = ValueError]
            /\ UNCHANGED objs
       ELSE /\ objs' = Append(objs, [NewConnector(0, connector_class.value)
                                        EXCEPT !.connected = ok])
            /\ last' = IF ok THEN [made EXCEPT !.obj = Len(objs) + 1]
                       ELSE [made EXCEPT !.error = ConnectionError]
    /\ UNCHANGED <<connectors, profiles, gets, healthVars, jobVars, fnVars>>

\* BaseConnector.list_databases on a temp connector in its caller's hands:
\* the listing is returned or the query raises.
ListDatabases(o, ok) ==
    /\ o \in DOMAIN objs
    /\ objs[o].conn = 0
    /\ last' = Gave("list_databases", 0, NoProfile, objs[o].conn, o,
                    IF ok THEN NoException ELSE ConnectionError, 0)
    /\ UNCHANGED <<connectors, profiles, objs, gets, ngets, healthVars, jobVars, fnVars>>

\* BaseConnector.disconnect, called by whoever holds the connector
Disconnect(o) ==
    /\ o \in DOMAIN objs
    /\ objs[o].connected
    /\ objs' = [objs EXCEPT ![o].connected = FALSE]
    /\ UNCHANGED <<connectors, profiles, gets, ngets, last, healthVars, jobVars, fnVars>>

\* The connector objects and the cache after close_connection(c) on them.
ClosedObjs(os, cache, c) ==
    IF cache[c] # 0 THEN [os EXCEPT ![cache[c]].connected = FALSE] ELSE os
ClosedCache(cache, c) == [cache EXCEPT ![c] = 0]

\* Variant of close_connection that evicts the entry without disconnecting
\* the connector.
CloseConnection_NoDisconnect(c) ==
    /\ IF Cached(c)
       THEN /\ connectors' = ClosedCache(connectors, c)
            /\ profiles' = profiles \ {c}
       ELSE UNCHANGED <<connectors, profiles>>
    /\ last' = Gave("close_connection", 0, NoProfile, c, 0, NoException, 0)
    /\ UNCHANGED <<objs, gets, ngets, healthVars, jobVars, fnVars>>

\* Variant of close_connection that forgets to drop the cached profile.
CloseConnection_KeepsProfile(c) ==
    /\ IF Cached(c)
       THEN /\ objs' = ClosedObjs(objs, connectors, c)
            /\ connectors' = ClosedCache(connectors, c)
            /\ UNCHANGED profiles
       ELSE UNCHANGED <<objs, connectors, profiles>>
    /\ last' = Gave("close_connection", 0, NoProfile, c, 0, NoException, 0)
    /\ UNCHANGED <<gets, ngets, healthVars, jobVars, fnVars>>

\* ConnectionManager.close_connection
CloseConnection(c) ==
    /\ IF Cached(c)
       THEN /\ objs' = ClosedObjs(objs, connectors, c)
            /\ connectors' = ClosedCache(connectors, c)
            /\ profiles' = profiles \ {c}
       ELSE UNCHANGED <<objs, connectors, profiles>>
    /\ last' = Gave("close_connection", 0, NoProfile, c, 0, NoException, 0)
    /\ UNCHANGED <<gets, ngets, healthVars, jobVars, fnVars>>

\* ConnectionManager.close_all_connections: close_connection on every key.
CloseAllConnections ==
    /\ objs' = [o \in DOMAIN objs |->
                  IF \E c \in ConnIds : connectors[c] = o
                  THEN [objs[o] EXCEPT !.connected = FALSE] ELSE objs[o]]
    /\ connectors' = [c \in ConnIds |-> 0]
    /\ profiles' = profiles \ {c \in ConnIds : Cached(c)}
    /\ last' = Gave("close_all_connections", 0, NoProfile, 0, 0, NoException, 0)
    /\ UNCHANGED <<gets, ngets, healthVars, jobVars, fnVars>>

\* The cached ids whose connector does not report itself connected.
Idle == {c \in ConnIds : Cached(c) /\ ~objs[connectors[c]].connected}

\* Variant of cleanup_idle_connections that returns the size of the cache.
CleanupIdleConnections_CountsAll ==
    /\ connectors' = [c \in ConnIds |-> IF c \in Idle THEN 0 ELSE connectors[c]]
    /\ profiles' = profiles \ Idle
    /\ last' = Gave("cleanup_idle_connections", 0, NoProfile, 0, 0, NoException,
                    Cardinality({c \in ConnIds : Cached(c)}))
    /\ UNCHANGED <<objs, gets, ngets, healthVars, jobVars, fnVars>>

\* ConnectionManager.cleanup_idle_connections: close_connection on every key
\* whose connector is not connected (disconnecting it once more changes
\* nothing); returns how many.
CleanupIdleConnections ==
    /\ connectors' = [c \in ConnIds |-> IF c \in Idle THEN 0 ELSE connectors[c]]
    /\ profiles' = profiles \ Idle
    /\ last' = Gave("cleanup_idle_connections", 0, NoProfile, 0, 0, NoException,
                    Cardinality(Idle))
    /\ UNCHANGED <<objs, gets, ngets, healthVars, jobVars, fnVars>>

\* ConnectionManager.get_active_connections: the ids it lists
GetActiveConnections == profiles

ConnNext ==
    \/ \E t \in Workers, p \in CacheProfiles :
           ngets < MaxGets /\ GetConnectorBegin(t, p)
    \/ \E t \in Workers, ok \in BOOLEAN : GetConnectorConnect(t, ok)
    \/ \E p \in CacheProfiles, s \in {<<>>, <<StoredUri>>}, ok \in BOOLEAN :
           ngets < MaxGets /\ CreateTempConnector(p, s, ok)
    \/ \E o \in 1..MaxGets, ok \in BOOLEAN : ListDatabases(o, ok)
    \/ \E o \in 1..MaxGets : Disconnect(o)
    \/ \E c \in ConnIds : CloseConnection(c)
    \/ CloseAllConnections
    \/ CleanupIdleConnections

ConnSpec == Init /\ [][ConnNext]_vars

\* ------------------------------------------------------------ health
\* ConnectionManager.get_connector run to completion on the caller's thread:
\* the exception it raises, the connector it returns (0: none) and the
\* connector objects and cache it leaves.
GetConnector(connection_profile, decrypted_password, ok) ==
    LET c == connection_profile.id
        connection_string == ManagerConnectionString(connection_profile,
                                                     decrypted_password)
        connector_class == GetConnectorClass(connection_profile.db_type)
        left(error, obj, os, cache, keys) ==
            [error |-> error, obj |-> obj, objs |-> os, connectors |-> cache,
             profiles |-> keys]
    IN  IF Cached(c)
        THEN IF objs[connectors[c]].connected
             THEN left(NoException, connectors[c], objs, connectors, profiles)
             ELSE IF ok
             THEN left(NoException, connectors[c],
                       [objs EXCEPT ![connectors[c]].connected = TRUE],
                       connectors, profiles)
             ELSE left(ConnectionError, 0, objs, connectors, profiles)
        ELSE IF connection_string.raises \/ connector_class.raises
        THEN left(ValueError, 0, objs, connectors, profiles)
        ELSE IF ok
        THEN left(NoException, Len(objs) + 1,
                  Append(objs, [NewConnector(c, connector_class.value)
                                   EXCEPT !.connected = TRUE]),
                  [connectors EXCEPT ![c] = Len(objs) + 1],
                  profiles \cup {c})
        ELSE left(ConnectionError, 0,
                  Append(objs, NewConnector(c, connector_class.value)),
                  connectors, profiles)

FailedAttemptsThreshold == 3

\* Variant of the status rule that goes OFFLINE only above the threshold.
Checked_AboveThreshold(h, outcome) ==
    CASE outcome = "healthy" ->
             [health_status |-> ONLINE, failed_attempts |-> 0]
      [] outcome = "unhealthy" ->
             [health_status |-> IF h.failed_attempts + 1 > FailedAttemptsThreshold
                                THEN OFFLINE ELSE DEGRADED,
              failed_attempts |-> h.failed_attempts + 1]
      [] OTHER ->
             [health_status |-> OFFLINE,
              failed_attempts |-> h.failed_attempts + 1]

\* check_connection lines 60-72 and 95-97: the profile's health columns
\* after a healthy probe, an unhealthy probe, or an exception.
Checked(h, outcome) ==
    CASE outcome = "healthy" ->
             [health_status |-> ONLINE, failed_attempts |-> 0]
      [] outcome = "unhealthy" ->
             [health_status |-> IF h.failed_attempts + 1 >= FailedAttemptsThreshold
                                THEN OFFLINE ELSE DEGRADED,
              failed_attempts |-> h.failed_attempts + 1]
      [] OTHER ->
             [health_status |-> OFFLINE,
              failed_attempts |-> h.failed_attempts + 1]

\* Variant of the logging that writes no row when get_connector raised.
LogHealthStatus_ProbesOnly(rows, connection_id, status, outcome) ==
    IF outcome = "exception" THEN rows
    ELSE Append(rows, [connection_id |-> connection_id, status |-> status])

\* check_connection lines 77-84 and 100-107, log_health_status: one row
\* added to the table.
LogHealthStatus(rows, connection_id, status, outcome) ==
    Append(rows, [connection_id |-> connection_id, status |-> status])

\* HealthMonitor.check_connection: get_connector raises or returns a
\* connector, whose test_connection reports healthy or not.
CheckConnection(connection, ok, is_healthy) ==
    LET decrypted_password == DecryptPassword(connection.encrypted_password)
        got == GetConnector(connection, decrypted_password, ok)
        outcome == IF got.error # NoException THEN "exception"
                   ELSE IF is_healthy THEN "healthy" ELSE "unhealthy"
        checked == Checked(health[connection.id], outcome)
    IN
    /\ Len(logs) < MaxChecks
    /\ objs' = got.objs
    /\ connectors' = got.connectors
    /\ profiles' = got.profiles
    /\ health' = [health EXCEPT ![connection.id] = checked]
    /\ logs' = LogHealthStatus(logs, connection.id, checked.health_status,
                               outcome)
    /\ result' = <<[connection_id |-> connection.id, outcome |-> outcome,
                    status |-> checked.health_status]>>
    /\ UNCHANGED <<gets, ngets, last, args, jobVars>>

\* Health checks, one at a time, on connections whose connectors their
\* holders may disconnect.
HealthNext ==
    \/ \E p \in CacheProfiles, ok \in BOOLEAN, h \in BOOLEAN :
           CheckConnection(p, ok, h)
    \/ \E o \in 1..MaxChecks : Disconnect(o)

HealthSpec == Init /\ [][HealthNext]_vars

\* Requests arrive in any order and execute_job calls overlap; the whole
\* behaviour falls within one instant of the clock.
JobNext ==
    \/ \E a \in BOOLEAN, t \in Thresholds : CreateJob(a, t, <<>>, "UTC")
    \/ ToggleJob
    \/ \E a \in Optional(BOOLEAN), t \in Optional(Thresholds) : UpdateJob(a, t)
    \/ \E w \in Workers, trig \in Triggers :
           ncalls < MaxRaceCalls /\ ExecuteJobBegin(w, trig)
    \/ \E c \in Workers : ExecuteJobMarkRunning(c)
    \/ \E c \in Workers, ok \in BOOLEAN : ExecuteJobResolve(c, ok)
    \/ \E c \in Workers, o \in Outcomes :
           ExecuteJobFinish(c, o)
    \/ \E e \in 1..MaxRaceCalls : CancelExecution(e)

Spec == Init /\ [][JobNext]_vars

\* execute_job runs on after each commit and the executor call returns or
\* raises: a call in progress is not left waiting forever.
ExecuteJobProceeds(c) ==
    \/ ExecuteJobMarkRunning(c)
    \/ \E ok \in BOOLEAN : ExecuteJobResolve(c, ok)
    \/ \E o \in Outcomes : ExecuteJobFinish(c, o)

LiveSpec == Spec /\ \A c \in Workers : WF_vars(ExecuteJobProceeds(c))

\* The same requests with the clock running and execute_job calls made one
\* after another: a call begins only when none is in progress.
SerialNext ==
    \/ Tick
    \/ \E a \in BOOLEAN, t \in Thresholds : CreateJob(a, t, <<>>, "UTC")
    \/ ToggleJob
    \/ \E a \in Optional(BOOLEAN), t \in Optional(Thresholds) : UpdateJob(a, t)
    \/ \E w \in Workers, trig \in Triggers :
           ncalls < MaxCalls /\ InFlight(calls) = {} /\ ExecuteJobBegin(w, trig)
    \/ \E c \in Workers : ExecuteJobMarkRunning(c)
    \/ \E c \in Workers, ok \in BOOLEAN : ExecuteJobResolve(c, ok)
    \/ \E c \in Workers, o \in Outcomes :
           ExecuteJobFinish(c, o)
    \/ \E e \in 1..MaxCalls : CancelExecution(e)

SerialSpec == Init /\ [][SerialNext]_vars

\* Jobs with a cron expression, created at minute 0 and executed, by hand or
\* by the schedule, one call after another while the clock runs.
CronJobNext ==
    \/ Tick
    \/ \E t \in 1..MaxThreshold, c \in {"* * * * *", "*/5 * * * *"},
          z \in {"UTC", "Asia/Kathmandu"} :
           CreateJob(TRUE, t, <<c>>, z)
    \/ \E w \in Workers, trig \in Triggers :
           ncalls < MaxCalls /\ InFlight(calls) = {} /\ ExecuteJobBegin(w, trig)
    \/ \E c \in Workers : ExecuteJobMarkRunning(c)
    \/ \E c \in Workers, ok \in BOOLEAN : ExecuteJobResolve(c, ok)
    \/ \E c \in Workers, o \in Outcomes : ExecuteJobFinish(c, o)

CronJobSpec == Init /\ [][CronJobNext]_vars

\* create_job requests alone, arriving at any minute of the clock.
CreateInit ==
    /\ now \in Minutes
    /\ InitStore
    /\ args = <<>>
    /\ result = <<>>

CreateNext ==
    \E a \in BOOLEAN, t \in Thresholds,
       c \in Optional(CronStrings \cup {""}), z \in TimezoneStrings \cup {""} :
        CreateJob(a, t, c, z)

CreateSpec == CreateInit /\ [][CreateNext]_vars

\* ------------------------------------------------------------ functions
\* A JSON object (a Python dict) is a function from the keys it holds; a JSON
\* number n is <<n>> and JSON null is <<>>.
EmptyDict == [k \in {} |-> <<>>]
Dicts(keys, values) == UNION {[K -> values] : K \in SUBSET keys}
\* dict.get(key, default)
Get(d, key, default) == IF key \in DOMAIN d THEN d[key] ELSE default
\* "retry_policy or {}": None (<<>>) and the empty dict both give {}
OrEmpty(p) == IF p = <<>> THEN EmptyDict ELSE p[1]


DefaultMaxRetries == 3

\* Variant of should_retry that does not look at is_active.
ShouldRetry_IgnoresActive(j, e) ==
    LET retry_policy == OrEmpty(j.retry_policy)
        max_retries == Get(retry_policy, "max_retries", <<DefaultMaxRetries>>)
    IN  IF max_retries = <<>> THEN Raises
        ELSE IF e.retry_count >= max_retries[1] THEN Returns(FALSE)
        ELSE IF j.consecutive_failures >= j.failure_threshold THEN Returns(FALSE)
        ELSE Returns(TRUE)

\* RetryHandler.should_retry.  Comparing retry_count with a max_retries that
\* is null raises TypeError.
ShouldRetry(j, e) ==
    LET retry_policy == OrEmpty(j.retry_policy)
        max_retries == Get(retry_policy, "max_retries", <<DefaultMaxRetries>>)
    IN  IF max_retries = <<>> THEN Raises
        ELSE IF e.retry_count >= max_retries[1] THEN Returns(FALSE)
        ELSE IF ~j.is_active THEN Returns(FALSE)
        ELSE IF j.consecutive_failures >= j.failure_threshold THEN Returns(FALSE)
        ELSE Returns(TRUE)

\* execute_job lines 164-166: the retry decision after a failed result, taken
\* on the job as committed by increment_failure_count, for a job created with
\* no retry_policy and an execution whose retry_count is the column default 0.
SchedulesRetry(j) ==
    ShouldRetry([retry_policy |-> <<>>, is_active |-> j.is_active,
                 consecutive_failures |-> j.consecutive_failures,
                 failure_threshold |-> j.failure_threshold],
                [retry_count |-> 0]).value

\* should_retry on every job and execution within the bounds.
ShouldRetryInit ==
    /\ InitProgram
    /\ result = <<>>
    /\ args \in
         [job : [retry_policy : Optional(Dicts({"max_retries"},
                                               Optional(0..MaxRetryCount))),
                 is_active : BOOLEAN,
                 consecutive_failures : 0..MaxThreshold,
                 failure_threshold : Thresholds],
          execution : [retry_count : 0..MaxRetryCount]]

ShouldRetryCall ==
    /\ result = <<>>
    /\ result' = <<ShouldRetry(args.job, args.execution)>>
    /\ UNCHANGED <<args, jobVars, connVars>>

ShouldRetrySpec == ShouldRetryInit /\ [][ShouldRetryCall]_vars

\* ------------------------------------------------------------ backoff
\* A JSON number of a retry policy, as the fraction num/den: whole numbers and
\* halves (1.5 is [num |-> 3, den |-> 2]).
Whole(n) == [num |-> n, den |-> 1]
Numbers ==
    {Whole(n) : n \in 0..MaxNumber}
      \cup {[num |-> n, den |-> 2] : n \in {m \in 0..MaxNumber : m % 2 = 1}}

RECURSIVE Pow(_, _)
Pow(b, n) == IF n = 0 THEN 1 ELSE b * Pow(b, n - 1)

\* a * b ** n
TimesPower(a, b, n) ==
    [num |-> a.num * Pow(b.num, n), den |-> a.den * Pow(b.den, n)]
\* min(a, b)
Min(a, b) == IF a.num * b.den <= b.num * a.den THEN a ELSE b
\* int(a), for a >= 0: the whole part
ToInt(a) == a.num \div a.den

DefaultBaseDelay == 60
DefaultMultiplier == 2
DefaultMaxBackoff == 3600

\* Variant of calculate_backoff_delay without the cap.
CalculateBackoffDelay_NoCap(retry_count, retry_policy) ==
    LET policy == OrEmpty(retry_policy)
        base_delay == Get(policy, "base_delay_seconds", Whole(DefaultBaseDelay))
        backoff_multiplier ==
            Get(policy, "backoff_multiplier", Whole(DefaultMultiplier))
    IN  ToInt(TimesPower(base_delay, backoff_multiplier, retry_count))

\* RetryHandler.calculate_backoff_delay
CalculateBackoffDelay(retry_count, retry_policy) ==
    LET policy == OrEmpty(retry_policy)
        base_delay == Get(policy, "base_delay_seconds", Whole(DefaultBaseDelay))
        backoff_multiplier ==
            Get(policy, "backoff_multiplier", Whole(DefaultMultiplier))
        max_backoff == Get(policy, "max_backoff_seconds", Whole(DefaultMaxBackoff))
        delay == TimesPower(base_delay, backoff_multiplier, retry_count)
    IN  ToInt(Min(delay, max_backoff))

PolicyKeys == {"base_delay_seconds", "backoff_multiplier", "max_backoff_seconds"}

\* calculate_backoff_delay on every retry count and policy within the bounds.
BackoffInit ==
    /\ InitProgram
    /\ result = <<>>
    /\ args \in [retry_count : 0..MaxRetryCount,
                 retry_policy : Optional(Dicts(PolicyKeys, Numbers))]

BackoffCall ==
    /\ result = <<>>
    /\ result' = <<CalculateBackoffDelay(args.retry_count, args.retry_policy)>>
    /\ UNCHANGED <<args, jobVars, connVars>>

BackoffSpec == BackoffInit /\ [][BackoffCall]_vars

\* ------------------------------------------------------------ scheduler
Instants == 0..(MaxTime + 1)

\* Variant of is_due that does not look at is_active.
IsDue_IgnoresActive(j, current_time) ==
    IF ~HasCron(j.cron_expression) THEN FALSE
    ELSE j.next_run_at # NULL /\ j.next_run_at <= current_time

\* JobScheduler.is_due
IsDue(j, current_time) ==
    IF ~j.is_active THEN FALSE
    ELSE IF ~HasCron(j.cron_expression) THEN FALSE
    ELSE j.next_run_at # NULL /\ j.next_run_at <= current_time

\* is_due on every job and instant within the bounds.
IsDueInit ==
    /\ InitProgram
    /\ result = <<>>
    /\ args \in [job : [is_active : BOOLEAN,
                        cron_expression : CronExpressions,
                        next_run_at : {NULL} \cup Instants],
                 current_time : Instants]

IsDueCall ==
    /\ result = <<>>
    /\ result' = <<IsDue(args.job, args.current_time)>>
    /\ UNCHANGED <<args, jobVars, connVars>>

IsDueSpec == IsDueInit /\ [][IsDueCall]_vars

\* ------------------------------------------------------------ crypto
\* A str is the sequence of its characters, here "a" and "b"; None is <<>>
\* and a str s is <<s>> where a value may be either.  Bytes and the
\* characters of a ciphertext are numbers.
Secrets == UNION {[1..n -> {"a", "b"}] : n \in 0..MaxSecretLen}

\* str.encode and bytes.decode
Encode(s) == [i \in 1..Len(s) |-> IF s[i] = "a" THEN 1 ELSE 2]
Decode(b) ==
    IF \E i \in 1..Len(b) : b[i] \notin {1, 2} THEN Raises
    ELSE Returns([i \in 1..Len(b) |-> IF b[i] = 1 THEN "a" ELSE "b"])

\* The authentication tag of a token: a number that differs whenever the
\* key, the IV or the ciphertext bytes differ, and that is no ciphertext
\* byte (those are 0..3).
RECURSIVE BytesCode(_)
BytesCode(b) == IF b = <<>> THEN 0 ELSE (b[1] + 1) + 5 * BytesCode(Tail(b))
Hmac(key, iv, ciphertext) == 4 + key + 2 * (iv + 2 * BytesCode(ciphertext))

\* Fernet(key).encrypt(data) with the IV it drew: version byte, IV,
\* ciphertext bytes, tag.
FernetEncrypt(key, iv, data) ==
    LET ciphertext == [i \in 1..Len(data) |-> (data[i] + key + iv) % 4]
    IN  <<3, iv>> \o ciphertext \o <<Hmac(key, iv, ciphertext)>>

\* Fernet(key).decrypt(token): raises InvalidToken for a token that is too
\* short, has another version byte, is malformed, or whose tag does not
\* verify under the key.
FernetDecrypt(key, token) ==
    IF Len(token) < 3 THEN Raises
    ELSE LET iv == token[2]
             ciphertext == SubSeq(token, 3, Len(token) - 1)
         IN  IF \/ token[1] # 3
                \/ iv \notin {0, 1}
                \/ \E i \in 1..Len(ciphertext) : ciphertext[i] \notin 0..3
                \/ token[Len(token)] # Hmac(key, iv, ciphertext)
             THEN Raises
             ELSE Returns([i \in 1..Len(ciphertext) |->
                              (ciphertext[i] - key - iv) % 4])

\* base64.b64encode: one character (10 and up) for each byte, then the
\* padding character 9.
B64Encode(b) == [i \in 1..Len(b) |-> b[i] + 10] \o <<9>>

\* base64.b64decode without validate: characters outside the alphabet
\* (below 9) are discarded; what is left must end with its padding, or
\* binascii.Error is raised.
B64Decode(text) ==
    LET kept == SelectSeq(text, LAMBDA ch : ch >= 9)
        body == SubSeq(kept, 1, Len(kept) - 1)
    IN  IF kept = <<>> \/ kept[Len(kept)] # 9
           \/ \E i \in 1..Len(body) : body[i] = 9
        THEN Raises
        ELSE Returns([i \in 1..Len(body) |-> body[i] - 10])

\* The key of the module's cipher, read once from the key file.
Cipher == args.key

\* crypto.encrypt_value with the IV Fernet drew; returns a str.
EncryptValue(value, iv) ==
    IF value = <<>> \/ value[1] = <<>> THEN <<>>
    ELSE B64Encode(FernetEncrypt(Cipher, iv, Encode(value[1])))

\* crypto.decrypt_value on a ciphertext spelled out character by
\* character: None or the plaintext.
DecryptValueText(encrypted_value) ==
    IF encrypted_value = <<>> \/ encrypted_value[1] = <<>> THEN Returns(<<>>)
    ELSE LET decoded == B64Decode(encrypted_value[1])
         IN  IF decoded.raises THEN Returns(<<>>)
             ELSE LET decrypted == FernetDecrypt(Cipher, decoded.value)
                  IN  IF decrypted.raises THEN Returns(<<>>)
                      ELSE IF Decode(decrypted.value).raises THEN Returns(<<>>)
                      ELSE Returns(<<Decode(decrypted.value).value>>)

\* What may be done to a stored ciphertext: one character replaced by
\* another of the alphabet, one character dropped, a character from outside
\* the alphabet inserted, the text replaced by one made under another key
\* or by a short text that never was a token.
Tampers ==
    [kind : {"replace", "drop", "insert", "rekey", "junk"},
     at : 1..(MaxSecretLen + 4), by : 1..3]

Tamper(text, value, iv, t) ==
    CASE t.kind = "replace" /\ t.at < Len(text) ->
             [text EXCEPT ![t.at] = 10 + ((@ - 10 + t.by) % 4)]
      [] t.kind = "drop" /\ t.at <= Len(text) ->
             SubSeq(text, 1, t.at - 1) \o SubSeq(text, t.at + 1, Len(text))
      [] t.kind = "insert" /\ t.at <= Len(text) + 1 ->
             SubSeq(text, 1, t.at - 1) \o <<t.by>> \o SubSeq(text, t.at, Len(text))
      [] t.kind = "rekey" /\ value # <<>> ->
             B64Encode(FernetEncrypt(1 - Cipher, iv, Encode(value[1])))
      [] t.kind = "junk" -> [i \in 1..t.by |-> 10 + t.at]
      [] OTHER -> text

\* A secret encrypted under the key, decrypted again, and a tampered copy
\* of its ciphertext decrypted.
CryptoInit ==
    /\ InitProgram
    /\ result = <<>>
    /\ args \in [key : {0, 1}, value : Optional(Secrets), iv : {0, 1},
                 tamper : Tampers]

CryptoCall ==
    /\ result = <<>>
    /\ LET encrypted == EncryptValue(args.value, args.iv)
           tampered == Tamper(encrypted, args.value, args.iv, args.tamper)
       IN  result' = <<[encrypted |-> encrypted,
                        decrypted |-> DecryptValueText(<<encrypted>>),
                        tampered |-> tampered,
                        rejected |-> DecryptValueText(<<tampered>>)]>>
    /\ UNCHANGED <<args, jobVars, connVars>>

CryptoSpec == CryptoInit /\ [][CryptoCall]_vars

\* ------------------------------------------------------------ SQL script executor
\* A script is the sequence of its characters.  Scripts are put together
\* from a few pieces: keywords in several letter cases, another word, and
\* characters that do or do not continue a word.
Pieces ==
    {<<"d", "r", "o", "p">>,
     <<"D", "r", "O", "p">>,
     <<"d", "e", "l", "e", "t", "e">>,
     <<"s", "e", "l", "e", "c", "t">>,
     <<"t", "r", "u", "n", "c", "a", "t", "e">>,
     <<" ", "t", "a", "b", "l", "e">>,
     <<"I", "n", "s", "e", "r", "t">>,
     <<"u", "p", "d", "a", "t", "e">>,
     <<"C", "R", "E", "A", "T", "E">>,
     <<"a", "l", "t", "e", "r">>,
     <<" ">>, <<"_">>, <<"s">>, <<";">>}

RECURSIVE Scripts(_)
Scripts(n) ==
    IF n = 0 THEN {<<>>}
    ELSE Scripts(n - 1) \cup {x \o piece : x \in Scripts(n - 1), piece \in Pieces}

\* str.upper, character by character
UpperChar(ch) ==
    CASE ch = "a" -> "A"
      [] ch = "i" -> "I"
      [] ch = "b" -> "B"
      [] ch = "c" -> "C"
      [] ch = "d" -> "D"
      [] ch = "e" -> "E"
      [] ch = "l" -> "L"
      [] ch = "n" -> "N"
      [] ch = "o" -> "O"
      [] ch = "p" -> "P"
      [] ch = "r" -> "R"
      [] ch = "s" -> "S"
      [] ch = "t" -> "T"
      [] ch = "u" -> "U"
      [] OTHER -> ch
Upper(text) == [i \in 1..Len(text) |-> UpperChar(text[i])]

\* str.strip() leaves nothing
Blank(text) == \A i \in 1..Len(text) : text[i] = " "

\* keyword in text
Contains(keyword, text) ==
    \E i \in 1..(Len(text) - Len(keyword) + 1) :
        SubSeq(text, i, i + Len(keyword) - 1) = keyword

\* \w of the re module
WordChar(ch) == ch \notin {" ", ";"}

\* Variant of the search that looks for the keyword at the start of the
\* script only.
SearchWord_AtStart(keyword, text) ==
    /\ Len(text) >= Len(keyword)
    /\ SubSeq(text, 1, Len(keyword)) = keyword
    /\ (Len(text) = Len(keyword) \/ ~WordChar(text[Len(keyword) + 1]))

\* re.search(rf'\b{keyword}\b', text): the keyword somewhere in the text
\* with no word character next to it on either side.
SearchWord(keyword, text) ==
    \E i \in 1..(Len(text) - Len(keyword) + 1) :
        /\ SubSeq(text, i, i + Len(keyword) - 1) = keyword
        /\ (i = 1 \/ ~WordChar(text[i - 1]))
        /\ (i + Len(keyword) > Len(text) \/ ~WordChar(text[i + Len(keyword)]))

\* The characters of the keywords validate_config looks for.
KeywordChars(keyword) ==
    CASE keyword = "INSERT" -> <<"I", "N", "S", "E", "R", "T">>
      [] keyword = "UPDATE" -> <<"U", "P", "D", "A", "T", "E">>
      [] keyword = "DELETE" -> <<"D", "E", "L", "E", "T", "E">>
      [] keyword = "CREATE" -> <<"C", "R", "E", "A", "T", "E">>
      [] keyword = "ALTER" -> <<"A", "L", "T", "E", "R">>
      [] keyword = "DROP" -> <<"D", "R", "O", "P">>
      [] keyword = "TRUNCATE" -> <<"T", "R", "U", "N", "C", "A", "T", "E">>
      [] keyword = "DROP DATABASE" -> <<"D", "R", "O", "P", " ", "D", "A", "T", "A", "B", "A", "S", "E">>
      [] keyword = "DROP SCHEMA" -> <<"D", "R", "O", "P", " ", "S", "C", "H", "E", "M", "A">>
      [] keyword = "TRUNCATE TABLE" -> <<"T", "R", "U", "N", "C", "A", "T", "E", " ", "T", "A", "B", "L", "E">>

dangerous_keywords == <<"DROP DATABASE", "DROP SCHEMA", "TRUNCATE TABLE">>
write_keywords ==
    <<"INSERT", "UPDATE", "DELETE", "CREATE", "ALTER", "DROP", "TRUNCATE">>

\* The sub-sequence of the keywords that the test accepts, in order.
RECURSIVE Found(_, _, _)
Found(keywords, text, whole) ==
    IF keywords = <<>> THEN <<>>
    ELSE (IF IF whole THEN SearchWord(KeywordChars(Head(keywords)), text)
                      ELSE Contains(KeywordChars(Head(keywords)), text)
          THEN <<Head(keywords)>> ELSE <<>>)
         \o Found(Tail(keywords), text, whole)

\* A job_config: each key holds <<v>> or, when the key is absent, <<>>.
\* SQLScriptExecutor.validate_config: errors and warnings are sequences of
\* <<message>> or <<message, keyword>>.
SQLScriptValidateConfig(job_config) ==
    LET missing ==
            IF job_config.sql_script = <<>>
            THEN <<<<"Missing required field: sql_script">>>>
            ELSE IF Blank(job_config.sql_script[1])
            THEN <<<<"SQL script cannot be empty">>>>
            ELSE <<>>
        sql_script == IF job_config.sql_script = <<>> THEN <<>>
                      ELSE Upper(job_config.sql_script[1])
        dangerous == Found(dangerous_keywords, sql_script, FALSE)
        read_only == job_config.read_only # <<>> /\ job_config.read_only[1]
        written == IF read_only THEN Found(write_keywords, sql_script, TRUE)
                   ELSE <<>>
        errors == missing \o
                  [i \in 1..Len(written) |->
                     <<"Write operation not allowed in read-only mode", written[i]>>]
    IN  [valid |-> Len(errors) = 0,
         errors |-> errors,
         warnings |-> [i \in 1..Len(dangerous) |->
                         <<"Potentially dangerous operation detected",
                           dangerous[i]>>]]

\* What the database calls of one execute do: every call up to fails_at
\* returns, fails_at raises the error, and rollback raises or returns.
Plans ==
    [fails_at : {"none", "create_engine", "connect", "begin", "execute",
                 "fetchall", "commit"},
     error : {"SQLAlchemyError", "Exception"},
     rollback_raises : BOOLEAN]

Called(call, plan) == [call |-> call, raised |-> plan.fails_at = call]

\* Variant of the except blocks that does not roll back.
HandleError_NoRollback(transaction, plan) == <<>>

\* execute lines 119-151, either except block: roll the transaction back if
\* one was begun, swallowing what rollback raises.
HandleError(transaction, plan) ==
    IF transaction
    THEN <<[call |-> "rollback", raised |-> plan.rollback_raises]>>
    ELSE <<>>

\* execute lines 153-159: the finally block
Cleanup(connection, engine) ==
    (IF connection THEN <<[call |-> "close", raised |-> FALSE]>> ELSE <<>>)
    \o (IF engine THEN <<[call |-> "dispose", raised |-> FALSE]>> ELSE <<>>)

Failed(calls_made, transaction, connection, engine, plan) ==
    [success |-> FALSE, error_message |-> TRUE,
     calls |-> calls_made \o HandleError(transaction, plan)
               \o Cleanup(connection, engine)]

\* SQLScriptExecutor.execute: the result and the database calls made, in
\* order.
SQLScriptExecute(job_config, plan) ==
    IF ~SQLScriptValidateConfig(job_config).valid
    THEN [success |-> FALSE, error_message |-> TRUE, calls |-> <<>>]
    ELSE
    LET use_transaction ==
            job_config.use_transaction = <<>> \/ job_config.use_transaction[1]
        c1 == <<Called("create_engine", plan)>>
        c2 == c1 \o <<Called("connect", plan)>>
        c3 == IF use_transaction THEN c2 \o <<Called("begin", plan)>> ELSE c2
        c4 == c3 \o <<Called("execute", plan)>>
        c5 == c4 \o <<Called("fetchall", plan)>>
        c6 == IF use_transaction THEN c5 \o <<Called("commit", plan)>> ELSE c5
    IN  IF plan.fails_at = "create_engine"
        THEN Failed(c1, FALSE, FALSE, FALSE, plan)
        ELSE IF plan.fails_at = "connect"
        THEN Failed(c2, FALSE, FALSE, TRUE, plan)
        ELSE IF use_transaction /\ plan.fails_at = "begin"
        THEN Failed(c3, FALSE, TRUE, TRUE, plan)
        ELSE IF plan.fails_at = "execute"
        THEN Failed(c4, use_transaction, TRUE, TRUE, plan)
        ELSE IF use_transaction /\ plan.fails_at = "commit"
        THEN Failed(c6, TRUE, TRUE, TRUE, plan)
        ELSE [success |-> TRUE, error_message |-> FALSE,
              calls |-> c6 \o Cleanup(TRUE, TRUE)]

\* execute on every job_config and plan within the bounds.
ScriptInit ==
    /\ InitProgram
    /\ result = <<>>
    /\ args \in [job_config : [sql_script : Optional(Scripts(MaxPieces)),
                               read_only : Optional(BOOLEAN),
                               use_transaction : Optional(BOOLEAN)],
                 plan : Plans]

ScriptCall ==
    /\ result = <<>>
    /\ result' = <<[validation |-> SQLScriptValidateConfig(args.job_config),
                    execution |-> SQLScriptExecute(args.job_config, args.plan)]>>
    /\ UNCHANGED <<args, jobVars, connVars>>

ScriptSpec == ScriptInit /\ [][ScriptCall]_vars

\* ------------------------------------------------------------ backup executor
\* A connection string, a path and a command-line argument are sequences of
\* tokens: names, and the separators "://"-schemes, ":", "@" and "/".
\* str.split(sep)
RECURSIVE Split(_, _)
Split(text, sep) ==
    IF \A i \in 1..Len(text) : text[i] # sep THEN <<text>>
    ELSE LET i == CHOOSE k \in 1..Len(text) :
                      text[k] = sep /\ \A m \in 1..(k - 1) : text[m] # sep
         IN  <<SubSeq(text, 1, i - 1)>> \o Split(SubSeq(text, i + 1, Len(text)), sep)

\* str.replace(scheme, '')
Without(text, scheme) == SelectSeq(text, LAMBDA tok : tok # scheme)

\* The connection strings a backup job is given, with the family each is
\* written for and the password it was written with.
BackupConnections ==
    {[family |-> "postgresql", password |-> <<"s3cret">>,
      text |-> <<"postgresql://", "app", ":", "s3cret", "@", "db", ":", "5433",
                 "/", "sales">>],
     [family |-> "postgresql", password |-> <<>>,
      text |-> <<"postgresql://", "app", "@", "db", "/", "sales">>],
     [family |-> "postgresql", password |-> <<"p", "@", "ss">>,
      text |-> <<"postgresql://", "app", ":", "p", "@", "ss", "@", "db", "/",
                 "sales">>],
     [family |-> "mysql", password |-> <<"s3cret">>,
      text |-> <<"mysql+pymysql://", "app", ":", "s3cret", "@", "db", "/",
                 "sales">>],
     [family |-> "mysql", password |-> <<>>,
      text |-> <<"mysql+pymysql://", "app", "@", "db", ":", "3307", "/",
                 "sales">>]}

\* BackupExecutor.validate_config; a job_config key holds <<v>> or, when
\* absent, <<>>.
BackupValidateConfig(job_config, writable) ==
    LET backup_type == IF job_config.backup_type = <<>> THEN "full"
                       ELSE job_config.backup_type[1]
        errors ==
            (IF job_config.database_type = <<>>
             THEN <<<<"Missing required field: database_type">>>>
             ELSE IF job_config.database_type[1] \notin {"postgresql", "mysql"}
             THEN <<<<"Unsupported database type", job_config.database_type[1]>>>>
             ELSE <<>>)
            \o (IF job_config.database_name = <<>>
                THEN <<<<"Missing required field: database_name">>>> ELSE <<>>)
            \o (IF backup_type \notin {"full", "schema_only", "data_only"}
                THEN <<<<"Invalid backup type", backup_type>>>> ELSE <<>>)
            \o (IF ~writable THEN <<<<"Storage path not writable">>>> ELSE <<>>)
    IN  [valid |-> Len(errors) = 0, errors |-> errors, warnings |-> <<>>]

\* What the tools do when run: the dump utility exits with 0, exits
\* non-zero, is killed at the timeout, or cannot be started; pg_dump that
\* does not exit with 0 has or has not written to its output file by then;
\* gzip, given a name that already ends in .gz, replaces the file by a
\* compressed one with .gz added to the name, or leaves it unchanged and
\* exits with 0 (GNU gzip 1.12 with its "already has .gz suffix" warning), or
\* exits non-zero.
Worlds ==
    [dump : {"ok", "nonzero", "timeout", "oserror"},
     partial : BOOLEAN,
     gzip : {"compresses", "unchanged", "refuses"}]

\* The parts _backup_postgresql and _backup_mysql take from the connection
\* string; <<>> when it does not split in two at "@".
ParseConnection(connection_string, scheme, default_port) ==
    LET parts == Split(Without(connection_string, scheme), "@")
    IN  IF Len(parts) # 2 THEN <<>>
        ELSE LET user_pass == Split(parts[1], ":")
                 host_port_db == Split(parts[2], "/")
                 host_port == Split(host_port_db[1], ":")
             IN  <<[username |-> user_pass[1],
                    password |-> IF Len(user_pass) > 1 THEN user_pass[2] ELSE <<>>,
                    host |-> host_port[1],
                    port |-> IF Len(host_port) > 1 THEN host_port[2]
                             ELSE <<default_port>>,
                    database |-> IF Len(host_port_db) > 1 THEN host_port_db[2]
                                 ELSE <<>>]>>

Invalid(files) ==
    [success |-> FALSE, error |-> "Invalid connection string format",
     files |-> files, runs |-> <<>>]

\* BackupExecutor._backup_postgresql: the result, the files in the storage
\* directory afterwards and the subprocesses run, each with its argument
\* list and the variables added to its environment.
BackupPostgresql(connection_string, job_config, files, backup_path, backup_type, compression, world) ==
    LET parsed == ParseConnection(connection_string, "postgresql://", "5432")
    IN  IF parsed = <<>> THEN Invalid(files)
    ELSE
    LET c == parsed[1]
        format == IF job_config.format = <<>> THEN "custom"
                  ELSE job_config.format[1]
        cmd == <<<<"pg_dump">>, <<"-h">>, c.host, <<"-p">>, c.port,
                 <<"-U">>, c.username, <<"-d">>, c.database, <<"-F">>,
                 <<CASE format = "plain" -> "p" [] format = "tar" -> "t"
                     [] OTHER -> "c">>>>
               \o (CASE backup_type = "schema_only" -> <<<<"--schema-only">>>>
                     [] backup_type = "data_only" -> <<<<"--data-only">>>>
                     [] OTHER -> <<>>)
               \o (IF compression THEN <<<<"-Z">>, <<"6">>>> ELSE <<>>)
               \o <<<<"-f">>, backup_path>>
        run == [cmd |-> cmd, env |-> {<<"PGPASSWORD", c.password>>}]
        written == IF world.dump = "oserror" THEN files
                   ELSE IF world.dump = "ok" \/ world.partial
                   THEN files \cup {backup_path}
                   ELSE files
    IN  [success |-> world.dump = "ok",
         error |-> CASE world.dump = "ok" -> ""
                     [] world.dump = "nonzero" -> "stderr"
                     [] world.dump = "timeout" -> "Backup timeout (exceeded 1 hour)"
                     [] OTHER -> "OSError",
         files |-> written,
         runs |-> <<run>>]

\* BackupExecutor._backup_mysql
BackupMysql(connection_string, files, backup_path, backup_type, compression, world) ==
    LET parsed == ParseConnection(connection_string, "mysql+pymysql://", "3306")
    IN  IF parsed = <<>> THEN Invalid(files)
    ELSE
    LET c == parsed[1]
        cmd == <<<<"mysqldump">>, <<"-h">>, c.host, <<"-P">>, c.port,
                 <<"-u">>, c.username, <<"-p">> \o c.password>>
               \o (CASE backup_type = "schema_only" -> <<<<"--no-data">>>>
                     [] backup_type = "data_only" -> <<<<"--no-create-info">>>>
                     [] OTHER -> <<>>)
               \o <<c.database>>
        dump == [cmd |-> cmd, env |-> {}]
        gzip == [cmd |-> <<<<"gzip">>, backup_path>>, env |-> {}]
        opened == files \cup {backup_path}
    IN  IF world.dump # "ok"
        THEN [success |-> FALSE,
              error |-> CASE world.dump = "nonzero" -> "stderr"
                          [] world.dump = "timeout" ->
                                 "Backup timeout (exceeded 1 hour)"
                          [] OTHER -> "OSError",
              files |-> opened, runs |-> <<dump>>]
        ELSE IF ~compression
        THEN [success |-> TRUE, error |-> "", files |-> opened, runs |-> <<dump>>]
        ELSE IF world.gzip = "refuses"
        THEN [success |-> FALSE, error |-> "CalledProcessError",
              files |-> opened, runs |-> <<dump, gzip>>]
        ELSE [success |-> TRUE, error |-> "",
              files |-> IF world.gzip = "unchanged" THEN opened
                        ELSE (opened \ {backup_path})
                                 \cup {backup_path \o <<".gz">>},
              runs |-> <<dump, gzip>>]

\* BackupExecutor.execute on an empty storage directory: the result, the
\* path chosen for the artifact (<<>> before one is chosen), the files left
\* and the subprocesses run.
BackupExecute(connection_string, job_config, writable, world) ==
    IF ~BackupValidateConfig(job_config, writable).valid
    THEN [success |-> FALSE, error |-> "Validation failed", backup_path |-> <<>>,
          files |-> {}, runs |-> <<>>]
    ELSE
    LET database_type == job_config.database_type[1]
        backup_type == IF job_config.backup_type = <<>> THEN "full"
                       ELSE job_config.backup_type[1]
        compression == job_config.compression_enabled = <<>>
                       \/ job_config.compression_enabled[1]
        format == IF job_config.format = <<>> THEN "custom"
                  ELSE job_config.format[1]
        backup_filename ==
            <<job_config.database_name[1], "_", backup_type, "_", "timestamp">>
            \o (IF database_type = "postgresql"
                THEN <<CASE format = "plain" -> ".sql" [] format = "tar" -> ".tar"
                         [] OTHER -> ".dump">>
                     \o (IF compression THEN <<".gz">> ELSE <<>>)
                ELSE IF compression THEN <<".sql.gz">> ELSE <<".sql">>)
        backup_path == <<"/app/backups", "/">> \o backup_filename
        made == IF database_type = "postgresql"
                THEN BackupPostgresql(connection_string, job_config, {},
                                      backup_path, backup_type, compression, world)
                ELSE BackupMysql(connection_string, {}, backup_path, backup_type,
                                 compression, world)
    IN  IF ~made.success
        THEN [success |-> FALSE, error |-> made.error, backup_path |-> backup_path,
              files |-> made.files, runs |-> made.runs]
        ELSE IF backup_path \notin made.files
        THEN [success |-> FALSE, error |-> "FileNotFoundError",
              backup_path |-> backup_path,
              files |-> made.files \ {backup_path}, runs |-> made.runs]
        ELSE [success |-> TRUE, error |-> "", backup_path |-> backup_path,
              files |-> made.files, runs |-> made.runs]

\* execute on every configuration, connection string and behaviour of the
\* tools within the bounds.
BackupInit ==
    /\ InitProgram
    /\ result = <<>>
    /\ args \in [job_config : [database_type : Optional({"postgresql", "mysql",
                                                         "oracle"}),
                               database_name : Optional({"sales"}),
                               backup_type : Optional({"schema_only", "hourly"}),
                               compression_enabled : Optional(BOOLEAN),
                               format : Optional({"plain", "tar"})],
                 connection : BackupConnections,
                 writable : BOOLEAN,
                 world : Worlds]
    /\ args.job_config.database_type \in {<<>>, <<"oracle">>, <<args.connection.family>>}

BackupCall ==
    /\ result = <<>>
    /\ result' = <<BackupExecute(args.connection.text, args.job_config,
                                 args.writable, args.world)>>
    /\ UNCHANGED <<args, jobVars, connVars>>

BackupSpec == BackupInit /\ [][BackupCall]_vars

\* ------------------------------------------------------------ claims
Rows == DOMAIN executions
\* The call in progress, if any, that inserted execution e.
Owner(e) == {w \in Workers : calls[w].pc \in Live /\ calls[w].exec = e}

\* C1: in every reachable state of the job, consecutive_failures >=
\* failure_threshold implies is_active = false.  (Stated for thresholds of 1
\* and more; a job created active with threshold 0 breaks it before any run.)
C1_AutoDisabled ==
    (job.exists /\ job.failure_threshold >= 1
       /\ job.consecutive_failures >= job.failure_threshold)
    => ~job.is_active

\* C2: every status change of an execution is PENDING->RUNNING,
\* RUNNING->COMPLETED, RUNNING->FAILED or RUNNING->CANCELLED; a terminal
\* status never changes again.
AllowedChange ==
    {<<PENDING, RUNNING>>, <<RUNNING, COMPLETED>>, <<RUNNING, FAILED>>,
     <<RUNNING, CANCELLED>>}
C2_StatusChanges ==
    [][\A e \in Rows :
          executions'[e].status # executions[e].status
          => <<executions[e].status, executions'[e].status>> \in AllowedChange]_vars

C4_EveryCallOneRow ==
    [][/\ ncalls' # ncalls => Len(executions') = Len(executions) + 1
       /\ Len(executions') # Len(executions) => ncalls' # ncalls
       /\ \A w \in Workers :
            (calls[w].pc \in Live /\ calls'[w].pc = "idle")
            => executions'[calls[w].exec].status \in {RUNNING} \cup Terminal]_vars

\* C4 as amended: a call that finds the job, and finds it active when the
\* trigger is the schedule, adds exactly one row, which is RUNNING or terminal
\* when the call ends; a call that raises at the two checks adds none; no other
\* step adds or removes a row.
C4_AcceptedCallOneRow ==
    [][/\ \A w \in Workers, trig \in Triggers :
            ExecuteJobBegin(w, trig)
            => IF job.exists /\ (trig = "schedule" => job.is_active)
               THEN /\ Len(executions') = Len(executions) + 1
                    /\ calls'[w].exec = Len(executions')
               ELSE executions' = executions
       /\ Len(executions') # Len(executions) => ncalls' # ncalls
       /\ \A w \in Workers :
            (calls[w].pc \in Live /\ calls'[w].pc = "idle")
            => executions'[calls[w].exec].status \in {RUNNING} \cup Terminal]_vars

\* A manual call on an inactive job has returned a COMPLETED execution.
C4_Witness ==
    /\ job.exists /\ ~job.is_active
    /\ \E e \in Rows : executions[e].status = COMPLETED /\ Owner(e) = {}
    /\ ncalls = Len(executions)

\* C5: for every execution row, completed_at is set if and only if the status
\* is COMPLETED, FAILED or CANCELLED.
C5_CompletedAtIffTerminal ==
    \A e \in Rows :
        (executions[e].completed_at # NULL) <=> (executions[e].status \in Terminal)

\* One execution cancelled while its call is in progress, another finished.
C5_Witness ==
    /\ \E e \in Rows : executions[e].status = CANCELLED /\ Owner(e) # {}
    /\ \E e \in Rows : executions[e].status = COMPLETED

\* C6: cancel_execution succeeds only on a RUNNING execution, and then sets
\* CANCELLED with completed_at and duration_ms; on any other execution it
\* changes neither the execution rows nor the job.
C6_CancelOnlyRunning ==
    [][/\ \A e \in 1..MaxCalls :
            CancelExecution(e)
            => IF e \in Rows /\ executions[e].status = RUNNING
               THEN /\ executions'[e].status = CANCELLED
                    /\ executions'[e].completed_at = now
                    /\ executions'[e].duration_ms = now - executions[e].started_at
                    /\ \A d \in Rows \ {e} : executions'[d] = executions[d]
                    /\ job' = job
               ELSE executions' = executions /\ job' = job
       /\ \A e \in Rows :
            (executions'[e].status = CANCELLED /\ executions[e].status # CANCELLED)
            => executions[e].status = RUNNING]_vars

\* An execution cancelled one instant after it started.
C6_Witness ==
    \E e \in Rows :
        /\ executions[e].status = CANCELLED
        /\ executions[e].started_at = 0
        /\ executions[e].completed_at = 1
        /\ executions[e].duration_ms = 1

\* C7: at most one execution of the job is RUNNING at any time.
C7_AtMostOneRunning ==
    Cardinality({e \in Rows : executions[e].status = RUNNING}) <= 1

\* C8: at most one connected connector exists for a connection id at any time.
C8_OneLiveConnector ==
    \A c \in ConnIds :
        Cardinality({o \in DOMAIN objs : objs[o].conn = c /\ objs[o].connected}) <= 1

\* C9: a failed execution that brings consecutive_failures to the threshold
\* leaves is_active false in that same step, and is_active goes back to true
\* only by a manual toggle or update.
C9_StickyAutoDisable ==
    [][/\ (/\ job.exists
           /\ job'.failure_threshold >= 1
           /\ job.consecutive_failures < job'.failure_threshold
           /\ job'.consecutive_failures >= job'.failure_threshold)
          => ~job'.is_active
       /\ (job.exists /\ ~job.is_active /\ job'.is_active)
          => \/ ToggleJob
             \/ \E a \in Optional(BOOLEAN), t \in Optional(Thresholds) :
                    UpdateJob(a, t)]_vars

\* C10: from an active job with consecutive_failures = 0 and threshold T >= 1,
\* after k failed manual calls in a row consecutive_failures = k, run_count and
\* failure_count have grown by k, and the job is inactive exactly when k >= T.
C10_ConsecutiveFailures ==
    scen.ok =>
        /\ job.consecutive_failures = scen.k
        /\ job.failure_count = scen.fail0 + scen.k
        /\ job.run_count = scen.run0 + scen.k
        /\ ~job.is_active <=> scen.k >= job.failure_threshold

\* Scenario C: threshold 3, three failed manual runs in a row.
C10_Witness ==
    /\ scen.ok /\ scen.k = 3
    /\ job.failure_threshold = 3
    /\ job.consecutive_failures = 3
    /\ ~job.is_active

\* C11: execute_job with a schedule trigger on an inactive job raises, adds no
\* execution row and changes no job counter; with a manual trigger on an
\* inactive job it inserts the PENDING row and goes on exactly as on an active
\* job; so a scheduled call starts an execution only on an active job.
C11_ScheduleNeedsActive ==
    [][\A w \in Workers, trig \in Triggers :
          (ExecuteJobBegin(w, trig) /\ job.exists /\ ~job.is_active)
          => IF trig = "schedule"
             THEN /\ raised' = "Job is not active"
                  /\ executions' = executions
                  /\ job' = job
                  /\ calls' = calls
             ELSE /\ raised' = NoError
                  /\ executions' = Append(executions, NewExecution)
                  /\ job' = job
                  /\ calls' = [calls EXCEPT ![w] =
                         [NoCall EXCEPT !.pc = "pending", !.triggered_by = trig,
                                        !.exec = Len(executions')]]]_vars

\* The schedule was turned away from a job that is inactive after a failed
\* run, and nothing ran since.
C11_Witness ==
    /\ raised = "Job is not active"
    /\ job.exists /\ ~job.is_active
    /\ job.consecutive_failures >= job.failure_threshold
    /\ job.failure_threshold >= 1
    /\ job.run_count = Len(executions)
    /\ ncalls = Len(executions) + 1

\* C12: should_retry returns false whenever retry_count >= max_retries,
\* whatever the other fields; it returns true if and only if retry_count <
\* max_retries (3 when the policy omits it), the job is active and
\* consecutive_failures < failure_threshold; and it changes neither the job
\* nor the execution.  (max_retries is a number or is omitted.)
C12_ShouldRetry ==
    /\ [](result # <<>> =>
            LET j == args.job
                e == args.execution
                p == OrEmpty(j.retry_policy)
                given == "max_retries" \in DOMAIN p
            IN  (given => p.max_retries # <<>>)
                => LET max_retries == IF given THEN p.max_retries[1] ELSE 3
                   IN  /\ ~result[1].raises
                       /\ e.retry_count >= max_retries => ~result[1].value
                       /\ result[1].value <=>
                            /\ e.retry_count < max_retries
                            /\ j.is_active
                            /\ j.consecutive_failures < j.failure_threshold)
    /\ [][args' = args /\ job' = job /\ executions' = executions]_vars

\* The boundary with the default: no policy, retry_count 3, everything else
\* in favour of a retry, and the answer is no.
C12_Witness ==
    /\ result = <<Returns(FALSE)>>
    /\ args.job.retry_policy = <<>>
    /\ args.execution.retry_count = 3
    /\ args.job.is_active
    /\ args.job.consecutive_failures < args.job.failure_threshold

\* C13: an execution that failed the executor's validate_config is returned
\* to the caller as FAILED and never gets a positive retry decision.
C13_NoRetryOfInvalidConfig ==
    [][\A c \in Workers :
          ExecuteJobFinish(c, "invalid")
          => /\ executions'[calls[c].exec].status = FAILED
             /\ ~SchedulesRetry(job')]_vars

\* C14: when something raises inside execute_job after the execution became
\* RUNNING, the call ends with the execution row persisted as FAILED with
\* completed_at, the error message and the error trace recorded, and the
\* job's run_count and failure counters updated.
C14_RaiseIsRecorded ==
    [][\A c \in Workers :
          (\/ ExecuteJobResolve(c, FALSE)
           \/ ExecuteJobFinish(c, "raise")
           \/ ExecuteJobFinish(c, "retry_raise"))
          => LET row == executions'[calls[c].exec]
             IN  /\ row.status = FAILED
                 /\ row.completed_at # NULL
                 /\ row.error_message
                 /\ row.error_stack_trace
                 /\ job'.run_count > job.run_count
                 /\ job'.failure_count > job.failure_count
                 /\ job'.consecutive_failures > job.consecutive_failures]_vars

\* The fields calculate_backoff_delay works with, defaults filled in.
BackoffBase == Get(OrEmpty(args.retry_policy), "base_delay_seconds", Whole(60))
BackoffMultiplier == Get(OrEmpty(args.retry_policy), "backoff_multiplier", Whole(2))
BackoffMax == Get(OrEmpty(args.retry_policy), "max_backoff_seconds", Whole(3600))
\* min(base_delay * multiplier^n, max_backoff), exactly
BackoffExact ==
    Min(TimesPower(BackoffBase, BackoffMultiplier, args.retry_count), BackoffMax)

\* C15 as claimed: calculate_backoff_delay(n, policy) equals
\* min(base_delay * multiplier^n, max_backoff), with 60, 2 and 3600 for the
\* fields the policy omits.
C15_BackoffIsFormula ==
    result # <<>> => result[1] * BackoffExact.den = BackoffExact.num

\* C15 as amended: calculate_backoff_delay(n, policy) is the whole part of
\* min(base_delay * multiplier^n, max_backoff), with 60, 2 and 3600 for the
\* fields the policy omits; the two are equal when the minimum is whole.
C15_BackoffIsWholePart ==
    result # <<>> =>
        /\ result[1] * BackoffExact.den <= BackoffExact.num
        /\ BackoffExact.num < (result[1] + 1) * BackoffExact.den
        /\ BackoffExact.num % BackoffExact.den = 0
           => result[1] * BackoffExact.den = BackoffExact.num

\* Multiplier 1.5 on the default base and cap: 60 * 1.5^3 = 202.5 gives 202.
C15_Witness ==
    /\ result = <<202>>
    /\ args.retry_count = 3
    /\ DOMAIN OrEmpty(args.retry_policy) = {"backoff_multiplier"}
    /\ BackoffMultiplier = [num |-> 3, den |-> 2]

\* C16: calculate_backoff_delay(n, policy) never exceeds max_backoff and is
\* not larger than calculate_backoff_delay(n + 1, policy).
C16_BackoffMonotone ==
    result # <<>> =>
        /\ result[1] * BackoffMax.den <= BackoffMax.num
        /\ result[1] <= CalculateBackoffDelay(args.retry_count + 1, args.retry_policy)

\* C17: is_due(job, now) is true if and only if the job is active, has a cron
\* expression, and has a next_run_at at or before now; and it changes nothing.
C17_IsDue ==
    /\ [](result # <<>> =>
            (result[1] <=>
               /\ args.job.is_active
               /\ args.job.cron_expression \notin {<<>>, <<"">>}
               /\ args.job.next_run_at # NULL
               /\ args.job.next_run_at <= args.current_time))
    /\ [][args' = args /\ job' = job]_vars

\* Due at the very instant next_run_at names.
C17_Witness ==
    /\ result = <<TRUE>>
    /\ args.job.next_run_at = args.current_time
    /\ args.current_time = 1

\* The UTC minute a base time stands for: a naive one is wall-clock time in
\* the zone, None is the clock.
BaseInstant(timezone, base_time) ==
    IF base_time = <<>> THEN now
    ELSE IF base_time[1].aware THEN base_time[1].t
         ELSE base_time[1].t - Timezone(timezone)[1]

C19_InvalidCronPersistsNothing ==
    [][\A a \in BOOLEAN, t \in Thresholds, c \in CronStrings,
          z \in TimezoneStrings \cup {""} :
           (~ValidateCronExpression(c) /\ CreateJob(a, t, <<c>>, z))
               => (job' = job /\ raised' = InvalidCron)]_vars
C19_Witness == raised = InvalidCron /\ ~job.exists

\* Minute u of UTC is matched by the expression in the zone.
Matches(cron_expression, timezone, u) ==
    LET cron == Croniter(cron_expression)[1]
    IN  ((u + Timezone(timezone)[1]) % cron.period) \in cron.phases
\* u is the first minute after t the expression matches in the zone.
FirstMatchAfter(cron_expression, timezone, t, u) ==
    /\ u > t
    /\ Matches(cron_expression, timezone, u)
    /\ \A v \in (t + 1)..(u - 1) : ~Matches(cron_expression, timezone, v)

\* C20: when create_job has inserted a job with a cron expression, the job's
\* next_run_at is set, whatever its timezone string, and for a zone that
\* exists it is the first minute after the creation time that the
\* expression matches in that zone; a job with no cron expression has no
\* next_run_at.
C20_FirstNextRun ==
    [][(~job.exists /\ job'.exists) =>
           IF HasCron(job'.cron_expression)
           THEN /\ job'.next_run_at # NULL
                /\ Timezone(job'.timezone) # <<>> =>
                       FirstMatchAfter(job'.cron_expression[1], job'.timezone,
                                       now, job'.next_run_at)
           ELSE job'.next_run_at = NULL]_vars

\* C28: for a profile that stores a full connection URI, get_connector,
\* create_temp_connector and the job manager's _get_connection_string all
\* give the URI, so an executor is handed the connection string the
\* connection manager uses.
C28_UriWinsEverywhere ==
    (/\ result # <<>>
     /\ DecryptValue(args.connection_profile.encrypted_connection_string) # <<>>)
        => /\ result[1].manager = Returns(StoredUri)
           /\ result[1].temp = Returns(StoredUri)
           /\ result[1].job = result[1].manager

\* C21: when get_connector returns normally the connector it returns reports
\* itself connected and is the cache entry for the profile's id; a call that
\* finds an entry for the id returns that connector, after reconnecting it if
\* it was disconnected, and a connector is instantiated only when the id has
\* no entry.
C21_ReturnsCachedConnected ==
    [][/\ (last' # last /\ last'.op = "get_connector"
                        /\ last'.error = NoException)
            => /\ objs'[last'.obj].connected
               /\ connectors'[last'.conn] = last'.obj
               /\ ngets' # ngets
                    => /\ Cached(last'.conn)
                       /\ last'.obj = connectors[last'.conn]
                       /\ objs' = objs
       /\ \A t \in Workers :
            /\ (gets[t].pc = "idle" /\ gets'[t].pc = "connecting")
                  => ~Cached(gets'[t].conn)
            /\ (gets[t].pc = "idle" /\ gets'[t].pc = "reconnecting")
                  => /\ gets'[t].obj = connectors[gets'[t].conn]
                     /\ objs' = objs
            /\ (gets[t].pc = "reconnecting" /\ gets'[t].pc = "idle"
                                           /\ last'.error = NoException)
                  => /\ last'.obj = gets[t].obj
                     /\ Len(objs') = Len(objs)]_vars

\* C22: when the connect() of a connector that get_connector made for an
\* uncached id fails, the call raises the connection error and leaves the
\* cache as it was, without the failed connector; a get_connector call that
\* finds no entry for its id connects a connector of its own making.
C22_FailedConnectNotCached ==
    [][\A t \in Workers :
        /\ (gets[t].pc = "connecting" /\ gets'[t].pc = "idle"
                                      /\ ~objs'[gets[t].obj].connected)
              => /\ last' = Gave("get_connector", gets[t].call, gets[t].profile,
                                 gets[t].conn, 0, ConnectionError, 0)
                 /\ connectors' = connectors
                 /\ profiles' = profiles
                 /\ \A c \in ConnIds : connectors'[c] # gets[t].obj
        /\ (gets[t].pc = "idle" /\ gets'[t].pc # "idle"
                                /\ ~Cached(gets'[t].conn))
              => /\ gets'[t].pc = "connecting"
                 /\ gets'[t].obj = Len(objs) + 1
                 /\ Len(objs') = Len(objs) + 1]_vars
C22_Witness ==
    /\ last.op = "get_connector"
    /\ last.error = ConnectionError
    /\ ~Cached(last.conn)
    /\ \E t \in Workers : /\ gets[t].pc = "connecting"
                          /\ gets[t].conn = last.conn
                          /\ gets[t].call > last.call

\* A database family for which there is no connector.
NoVariant(db_type) ==
    db_type \notin {POSTGRESQL, MYSQL, MARIADB, SQLITE, MONGODB}
\* A get_connector or create_temp_connector call that began and ended in
\* this step.
EndedAtOnce(op) == last' # last /\ last'.op = op /\ ngets' # ngets
\* The call raised ValueError; no connector was instantiated, none connected
\* and the cache is as it was.
FailedFast ==
    /\ last'.error = ValueError
    /\ last'.obj = 0
    /\ objs' = objs
    /\ connectors' = connectors
    /\ profiles' = profiles

\* C23 as stated: every get_connector and create_temp_connector call for a
\* profile of a family with no connector raises ValueError before a
\* connector is instantiated or connected, and leaves the cache unchanged.
C23_UnsupportedFailsFast ==
    [][/\ \A t \in Workers :
              (gets[t].pc = "idle" /\ gets'[t].pc # "idle")
                  => ~NoVariant(gets'[t].profile.db_type)
       /\ (EndedAtOnce("get_connector") /\ NoVariant(last'.profile.db_type))
              => FailedFast
       /\ (EndedAtOnce("create_temp_connector")
               /\ NoVariant(last'.profile.db_type))
              => FailedFast]_vars

\* C23, amended: the same for create_temp_connector and for get_connector
\* calls whose connection id has no cache entry.
C23_UnsupportedUncachedFailsFast ==
    [][/\ \A t \in Workers :
              (gets[t].pc = "idle" /\ gets'[t].pc # "idle"
                                   /\ ~Cached(gets'[t].conn))
                  => ~NoVariant(gets'[t].profile.db_type)
       /\ (EndedAtOnce("get_connector") /\ NoVariant(last'.profile.db_type)
               /\ ~Cached(last'.conn))
              => FailedFast
       /\ (EndedAtOnce("create_temp_connector")
               /\ NoVariant(last'.profile.db_type))
              => FailedFast]_vars
C23_Witness ==
    /\ last.op = "get_connector"
    /\ last.error = ValueError
    /\ last.profile.db_type = ORACLE
    /\ last.profile.encrypted_connection_string = <<EncryptedUri>>
    /\ ~Cached(last.conn)

\* The connector class the tests expect for a family.
Variant(db_type) ==
    CASE db_type = POSTGRESQL -> PostgreSQLConnector
      [] db_type = MYSQL -> MySQLConnector
      [] db_type = MONGODB -> MongoDBConnector
\* A postgresql, mysql or mongodb profile with no stored connection URI.
ByHostAndPort(p) ==
    /\ p.db_type \in {POSTGRESQL, MYSQL, MONGODB}
    /\ p.encrypted_connection_string = <<>>

\* C24: a get_connector call for a postgresql, mysql or mongodb profile that
\* has no full connection URI, on an id with no cache entry, instantiates a
\* connector of the matching class (it does not fail before connecting), and
\* when the connection succeeds it returns that connector.
C24_MatchingVariant ==
    [][/\ (EndedAtOnce("get_connector") /\ ByHostAndPort(last'.profile)
               /\ ~Cached(last'.conn))
              => last'.error = NoException
       /\ \A t \in Workers :
            /\ (gets[t].pc = "idle" /\ gets'[t].pc = "connecting"
                                    /\ ByHostAndPort(gets'[t].profile))
                  => objs'[gets'[t].obj].class
                         = Variant(gets'[t].profile.db_type)
            /\ (gets[t].pc = "connecting" /\ ByHostAndPort(gets[t].profile)
                    /\ gets'[t].pc = "idle" /\ last'.error = NoException)
                  => /\ last'.obj = gets[t].obj
                     /\ objs'[last'.obj].class
                            = Variant(gets[t].profile.db_type)]_vars

\* The cache holds the same ids with the same connectors, in the same state,
\* after the step as before it.
CacheUnchanged ==
    /\ connectors' = connectors
    /\ profiles' = profiles
    /\ \A c \in ConnIds : Cached(c) => objs'[connectors[c]] = objs[connectors[c]]

\* C25: a create_temp_connector call leaves the cache unchanged whatever its
\* outcome (a connector, a connection error, a ValueError) and whether or not
\* the profile's id is cached, and so do list_databases on a temp connector
\* and the disconnect of a temp connector.
C25_TempNeverCached ==
    [][/\ (last' # last /\ last'.op \in {"create_temp_connector",
                                         "list_databases"})
              => CacheUnchanged
       /\ (\E o \in DOMAIN objs : /\ objs[o].conn = 0
                                  /\ objs[o].connected /\ ~objs'[o].connected)
              => CacheUnchanged]_vars
C25_Witness ==
    /\ last.op = "create_temp_connector"
    /\ last.obj # 0
    /\ Cached(last.conn)
    /\ connectors[last.conn] # last.obj
    /\ objs[connectors[last.conn]].connected

\* C26: close_connection(c) leaves c out of the cache with its former
\* connector disconnected and every other entry as it was, and changes
\* nothing when c is not cached; close_all_connections leaves the cache
\* empty and every formerly cached connector disconnected.
C26_CloseEvicts ==
    [][/\ \A c \in ConnIds :
            CloseConnection(c)
                => /\ connectors'[c] = 0
                   /\ c \notin profiles'
                   /\ Cached(c) => ~objs'[connectors[c]].connected
                   /\ \A d \in ConnIds \ {c} :
                         /\ connectors'[d] = connectors[d]
                         /\ (d \in profiles') = (d \in profiles)
                         /\ Cached(d) =>
                                objs'[connectors[d]] = objs[connectors[d]]
                   /\ ~Cached(c) => /\ connectors' = connectors
                                    /\ profiles' = profiles
                                    /\ objs' = objs
       /\ CloseAllConnections
                => /\ \A c \in ConnIds : connectors'[c] = 0
                   /\ profiles' = {}
                   /\ \A c \in ConnIds :
                         Cached(c) => ~objs'[connectors[c]].connected]_vars
C26_Witness ==
    /\ last.op = "close_connection"
    /\ ~Cached(last.conn)
    /\ \E o \in DOMAIN objs : objs[o].conn = last.conn /\ ~objs[o].connected
    /\ \E d \in ConnIds : Cached(d) /\ objs[connectors[d]].connected

\* C27: cleanup_idle_connections evicts exactly the cached ids whose
\* connector reports itself disconnected and returns how many they were;
\* the connected connectors stay cached and connected, so that afterwards
\* every cached connector reports itself connected.
C27_CleanupEvictsDisconnected ==
    [][CleanupIdleConnections
         => /\ \A c \in ConnIds :
                  IF Cached(c) /\ objs[connectors[c]].connected
                  THEN /\ connectors'[c] = connectors[c]
                       /\ c \in profiles'
                       /\ objs'[connectors[c]].connected
                  ELSE connectors'[c] = 0 /\ c \notin profiles'
            /\ last'.value =
                  Cardinality({c \in ConnIds :
                                  Cached(c) /\ ~objs[connectors[c]].connected})
            /\ \A c \in ConnIds :
                  connectors'[c] # 0 => objs'[connectors'[c]].connected]_vars
C27_Witness ==
    /\ last.op = "cleanup_idle_connections"
    /\ last.value = 1
    /\ \E c \in ConnIds : Cached(c) /\ objs[connectors[c]].connected
    /\ \E o \in DOMAIN objs :
          /\ objs[o].conn # 0 /\ ~objs[o].connected
          /\ connectors[objs[o].conn] # o

\* A step in which check_connection ran.
Checks == result' # result \/ health' # health \/ logs' # logs

\* C29: check_connection's classification. A healthy probe leaves
\* failed_attempts 0 and ONLINE; an unhealthy probe adds one to
\* failed_attempts and leaves DEGRADED when the new count is below 3 and
\* OFFLINE when it is 3 or more; an exception while getting the connector
\* leaves OFFLINE; the status returned is the status on the profile.
C29_Classifies ==
    [][Checks =>
        LET r == result'[1]
            before == health[r.connection_id]
            after == health'[r.connection_id]
        IN  /\ r.outcome = "healthy" =>
                   after.failed_attempts = 0 /\ after.health_status = ONLINE
            /\ r.outcome = "unhealthy" =>
                   /\ after.failed_attempts = before.failed_attempts + 1
                   /\ after.failed_attempts < 3 => after.health_status = DEGRADED
                   /\ after.failed_attempts >= 3 => after.health_status = OFFLINE
            /\ r.outcome = "exception" => after.health_status = OFFLINE
            /\ r.status = after.health_status]_vars

\* Three unhealthy probes in a row took a connection through DEGRADED,
\* DEGRADED to OFFLINE.
C29_Witness ==
    /\ Len(logs) = 3
    /\ Len(result) = 1
    /\ result[1].outcome = "unhealthy"
    /\ result[1].status = OFFLINE
    /\ health[result[1].connection_id] =
           [health_status |-> OFFLINE, failed_attempts |-> 3]
    /\ \A i \in 1..3 : logs[i].connection_id = result[1].connection_id
    /\ logs[1].status = DEGRADED
    /\ logs[2].status = DEGRADED

\* C30: every check_connection call, whatever its outcome, appends exactly
\* one ConnectionHealthLog row, for the connection checked and with the
\* status the call returns; no step changes or removes an earlier row.
C30_OneLogRowPerCheck ==
    [][/\ Len(logs') >= Len(logs)
       /\ SubSeq(logs', 1, Len(logs)) = logs
       /\ Checks =>
            /\ Len(logs') = Len(logs) + 1
            /\ logs'[Len(logs')] = [connection_id |-> result'[1].connection_id,
                                    status |-> result'[1].status]]_vars

\* A check that raised added its OFFLINE row after the row of an earlier
\* healthy check, which is still there.
C30_Witness ==
    /\ Len(logs) = 2
    /\ Len(result) = 1
    /\ result[1].outcome = "exception"
    /\ logs[1].status = ONLINE
    /\ logs[2] = [connection_id |-> result[1].connection_id, status |-> OFFLINE]

\* C40: whatever get_connector, create_temp_connector, close_connection,
\* close_all_connections and cleanup_idle_connections calls were made,
\* failed ones included, the ids get_active_connections lists are exactly
\* the ids that have a cached connector.
C40_ProfilesMatchCache ==
    GetActiveConnections = {c \in ConnIds : Cached(c)}

\* One connection was closed after it had been opened while another stays
\* cached.
C40_Witness ==
    /\ last.op = "close_connection"
    /\ ~Cached(last.conn)
    /\ \E o \in DOMAIN objs : objs[o].conn = last.conn
    /\ \E c \in ConnIds : Cached(c) /\ c \in GetActiveConnections

\* C39: over check_connection calls on one connection with no healthy
\* probe among them, a status that has become OFFLINE stays OFFLINE: no
\* check that is not healthy takes the connection from OFFLINE to another
\* status.
C39_OfflineStaysOffline ==
    [][Checks =>
        LET r == result'[1]
        IN  (/\ r.outcome # "healthy"
             /\ health[r.connection_id].health_status = OFFLINE)
            => health'[r.connection_id].health_status = OFFLINE]_vars

\* C39, amended: a status that is OFFLINE with at least two failures counted
\* stays OFFLINE on every later check that is not healthy. (An OFFLINE set
\* by an exception on the first failure can be followed by DEGRADED.)
C39_CountedOfflineStaysOffline ==
    [][Checks =>
        LET r == result'[1]
        IN  (/\ r.outcome # "healthy"
             /\ health[r.connection_id].health_status = OFFLINE
             /\ health[r.connection_id].failed_attempts >= 2)
            => health'[r.connection_id].health_status = OFFLINE]_vars

\* Two checks that raised left the connection OFFLINE, and a third check,
\* whose probe was unhealthy, left it OFFLINE.
C39_Witness ==
    /\ Len(logs) = 3
    /\ Len(result) = 1
    /\ \A i \in 1..3 : logs[i] = [connection_id |-> result[1].connection_id,
                                  status |-> OFFLINE]
    /\ result[1].outcome = "unhealthy"
    /\ health[result[1].connection_id].failed_attempts = 3

\* C38: in every persisted state, whatever the interleaving of execute_job
\* calls on the job, run_count = success_count + failure_count.
C38_RunsAreSuccessesPlusFailures ==
    job.exists => job.run_count = job.success_count + job.failure_count

\* C36: when an execute_job call on a job with a cron expression ends,
\* whether its execution is COMPLETED, FAILED by the executor's result or
\* FAILED by an exception, the job's next_run_at is an instant after the
\* end of the execution and is_due is false at that instant.
C36_NextRunMovedOn ==
    [][\A c \in Workers :
         (/\ calls[c].pc \in {"running", "executing"}
          /\ calls'[c].pc = "idle"
          /\ HasCron(job'.cron_expression))
         => /\ job'.next_run_at # NULL
            /\ job'.next_run_at > now
            /\ ~IsDue(job', now)]_vars

\* C35: for every secret plaintext p, decrypt_value(encrypt_value(p)) = p,
\* and decrypt_value of a ciphertext that was tampered with returns None
\* and does not raise.
C35_RoundTrip ==
    (result # <<>> /\ "tamper" \in DOMAIN args) =>
        /\ args.value # <<>> => result[1].decrypted = Returns(args.value)
        /\ result[1].tampered # result[1].encrypted =>
               result[1].rejected = Returns(<<>>)

\* The script has the keyword as a whole word, in any letter case: a
\* maximal run of word characters that spells it, each letter in capitals
\* or in small letters.
SmallLetter(ch) ==
    CASE ch = "I" -> "i" [] ch = "N" -> "n" [] ch = "S" -> "s"
      [] ch = "E" -> "e" [] ch = "R" -> "r" [] ch = "T" -> "t"
      [] ch = "U" -> "u" [] ch = "P" -> "p" [] ch = "D" -> "d"
      [] ch = "A" -> "a" [] ch = "L" -> "l" [] ch = "C" -> "c"
      [] ch = "O" -> "o" [] OTHER -> ch
HasWord(text, keyword) ==
    \E i \in 1..Len(text), j \in 1..Len(text) :
        /\ j - i + 1 = Len(keyword)
        /\ \A k \in i..j : /\ WordChar(text[k])
                           /\ text[k] \in {keyword[k - i + 1],
                                           SmallLetter(keyword[k - i + 1])}
        /\ i > 1 => ~WordChar(text[i - 1])
        /\ j < Len(text) => ~WordChar(text[j + 1])

ReadOnlyScript ==
    /\ result # <<>>
    /\ "job_config" \in DOMAIN args
    /\ args.job_config.read_only = <<TRUE>>
    /\ args.job_config.sql_script # <<>>

\* C31: for a read_only configuration whose script has INSERT, UPDATE,
\* DELETE, CREATE, ALTER, DROP or TRUNCATE as a whole word in any letter
\* case, validate_config reports valid = false with an error naming the
\* keyword, and execute returns a failed result having made no database
\* call at all.
C31_ReadOnlyRejectsWrites ==
    ReadOnlyScript =>
        \A n \in 1..Len(write_keywords) :
            HasWord(args.job_config.sql_script[1],
                    KeywordChars(write_keywords[n]))
            => /\ ~result[1].validation.valid
               /\ \E e \in 1..Len(result[1].validation.errors) :
                      result[1].validation.errors[e] =
                          <<"Write operation not allowed in read-only mode",
                            write_keywords[n]>>
               /\ ~result[1].execution.success
               /\ result[1].execution.calls = <<>>

\* A read_only script that reads " DrOp" was rejected.
C31_Witness ==
    /\ ReadOnlyScript
    /\ args.job_config.sql_script[1] = <<" ", "D", "r", "O", "p">>
    /\ ~result[1].validation.valid
    /\ result[1].execution.calls = <<>>

\* The calls execute made, for a configuration that passed validation with
\* the transaction wrapper on (use_transaction absent or true).
TxCalls == result[1].execution.calls
InTransaction ==
    /\ result # <<>>
    /\ "job_config" \in DOMAIN args
    /\ result[1].validation.valid
    /\ args.job_config.use_transaction \in {<<>>, <<TRUE>>}
Returned(call) == {i \in 1..Len(TxCalls) : TxCalls[i] = [call |-> call, raised |-> FALSE]}
Attempted(call) == {i \in 1..Len(TxCalls) : TxCalls[i].call = call}

\* C32: with the transaction wrapper on, a transaction that was begun is
\* committed exactly when execute returns success and rolled back on every
\* failure (by rollback(), or, when rollback() itself raises, by the close
\* of the connection that follows it), never both; and a connection that
\* was opened is closed afterwards on every path.
C32_CommitOrRollback ==
    InTransaction =>
        /\ Returned("begin") # {} =>
              /\ Returned("commit") # {} <=> result[1].execution.success
              /\ ~result[1].execution.success =>
                     \E r \in Attempted("rollback") :
                         \/ ~TxCalls[r].raised
                         \/ \E c \in Returned("close") : c > r
              /\ Returned("commit") = {} \/ Attempted("rollback") = {}
              /\ Cardinality(Attempted("commit")) <= 1
              /\ Cardinality(Attempted("rollback")) <= 1
              /\ \A e \in Attempted("commit") \cup Attempted("rollback") :
                     /\ \A b \in Returned("begin") : b < e
                     /\ \A c \in Returned("close") : e < c
        /\ Returned("connect") # {} =>
              /\ Cardinality(Returned("close")) = 1
              /\ \A o \in Returned("connect"), c \in Returned("close") : o < c

\* The commit raised: the transaction was rolled back and the connection
\* closed.
C32_Witness ==
    /\ InTransaction
    /\ args.plan.fails_at = "commit"
    /\ ~result[1].execution.success
    /\ Returned("begin") # {}
    /\ Returned("rollback") # {}
    /\ Returned("close") # {}

Backed == result # <<>> /\ "world" \in DOMAIN args

\* C33: whenever execute returns a failed result after the artifact path
\* was chosen, no file is left at backup_path.
C33_NoPartialArtifact ==
    (Backed /\ ~result[1].success /\ result[1].backup_path # <<>>)
        => result[1].backup_path \notin result[1].files

\* C34: in every subprocess a backup runs, for PostgreSQL and for MySQL, the
\* database password is in no command-line argument.
C34_PasswordNotInArguments ==
    (Backed /\ args.connection.password # <<>>) =>
        \A r \in 1..Len(result[1].runs) :
            \A a \in 1..Len(result[1].runs[r].cmd) :
                ~Contains(args.connection.password, result[1].runs[r].cmd[a])

\* C37: when the dump utility, and for MySQL with compression on the
\* compression step too, completed successfully, execute returns success
\* and a file exists at result.backup_path.
C37_ArtifactExists ==
    (/\ Backed
     /\ result[1].runs # <<>>
     /\ args.world.dump = "ok"
     /\ Len(result[1].runs) > 1 => args.world.gzip # "refuses")
        => /\ result[1].success
           /\ result[1].backup_path \in result[1].files

====
